---- MODULE Spec2Model ----
(***************************************************************************)
(* Proof task pipeline of kzero-service: the job store (Prisma `proof`     *)
(* rows), the scheduler ProofTaskService.handleProofTasks with its         *)
(* per-dispatch timeout closure, the gateway ProofWebsocketGateway         *)
(* (connected workers, sendTask, handleProofResult) and the worker's       *)
(* reply.                                                                  *)
(*                                                                         *)
(* Node runs every handler on one event loop: code between two `await`s    *)
(* is atomic, and each awaited store operation takes effect in the store   *)
(* at some moment between its issue and the resumption of the handler.     *)
(* Each action below is one such segment: a store operation together with  *)
(* the effect-free code that led to it, or the code that runs when the     *)
(* handler resumes.                                                        *)
(*                                                                         *)
(* The functions of packages/common (generateZKInput, poseidonHash,        *)
(* convertBase, getUnsignedPaddedJWT, getExtKCFields) are operators; each  *)
(* has a caller that fixes its arguments and then applies it.              *)
(*                                                                         *)
(* Smaller specifications look at one part with more room: the gateway     *)
(* with several worker connections, workers that send results nobody       *)
(* asked for, a WebSocketClient whose owner calls close(), and the modulus *)
(* and signature signals on numbers.                                       *)
(***************************************************************************)
EXTENDS Integers, Sequences, FiniteSets, TLC

\* ------------------------------------------------------------- bounds
MaxJobs == 2
MaxTicks == 2
MaxSockets == 1
MaxClients == 2
MaxTasks == 2
MaxSeeds == 2
MaxNonces == 2
MaxCallbacks == 3
MaxVal == 2
MaxCerts == 2
MaxClock == 2
MaxInputs == 34
StackLimit == 4
MaxBits == 3
MaxDigits == 3
MaxHeaderLen == 2
MaxPayloadLen == 128
MaxClaims == 5
MaxValueLen == 40
MaxGwSockets == 3
LimbBits == 2
FieldBits == 3
MaxModulus == 63

Jobs == 1..MaxJobs
Ticks == 1..MaxTicks
Sockets == 1..MaxSockets
Clients == 1..MaxClients
Tasks == 1..MaxTasks
Seeds == 1..MaxSeeds
Nonces == 1..MaxNonces
Callbacks == 1..MaxCallbacks
Vals == 1..MaxVal
GwSockets == 1..MaxGwSockets

\* WebSocketClient's configuration constants (milliseconds)
RECONNECT_INTERVAL == 5000
PING_INTERVAL == 30000
PONG_TIMEOUT == 5000

\* generateZKInput's buffer for the padded unsigned JWT (bytes)
PADDED_UNSIGNED_JWT_LENGTH == 1600

\* "no row" / "no worker" (null in the source)
NoJob == 0
NoWorker == 0
NullJson == <<>>

VARIABLES
    store,            \* the proof table: job id -> row
    processingProofs, \* ProofTaskService.processingProofs
    connectedWorkers, \* ProofWebsocketGateway.connectedWorkers, in insertion order
    readyState,       \* socket -> "NEW" | "OPEN" | "CLOSED"
    isAlive,          \* socket -> ExtendedWebSocket.isAlive
    ticks,            \* slot -> the invocation of handleProofTasks running in it
    timers,           \* slot -> the timeout closure its invocation armed
    outbox,           \* task messages written to worker sockets and not yet answered
    fallbacks,        \* job id -> handleProofResult invocations in their catch branch
    sentCount,        \* job id -> number of task messages sent for the job (history)
    timedOut,         \* job id -> a timeout closure has set the job to failed (history)
    connectionTimer,  \* socket -> "none" | "armed": ExtendedWebSocket.connectionTimer
    \* one WebSocketClient object per worker process
    cState,           \* client -> readyState: "CONNECTING" | "OPEN" | "CLOSED"
    reconnectAttempts,\* client -> WebSocketClient.reconnectAttempts
    pingTimer,        \* client -> the ping interval is set
    pongTimer,        \* client -> "none" | "armed": the pong timeout
    reconnectTimer,   \* client -> [armed, delay]: the reconnect timeout
    isPongReceived,   \* client -> WebSocketClient.isPongReceived
    closePending,     \* client -> the socket has closed and 'close' is not yet emitted
    discarded,        \* socket -> the message handler has discarded a message (history)
    \* one worker process running generateProof for the tasks it receives
    wTasks,           \* task -> [pc, seed, proof, public]: a message handler invocation
    cacheFiles,       \* address_seed -> the files of its cache directory
    wReplies,         \* the result messages the worker has sent
    \* the auth server's OAuth callback
    proofTable,       \* the proof rows as the auth server creates them: [nonce, status]
    callbacks,        \* request -> [pc, nonce]: an invocation of handleGoogleCallback
    \* two calls of generateZKInput with the same arguments
    zkArgs,           \* the arguments of both calls (NoArgs until chosen)
    zkOut,            \* call -> its result (NoOut until the call has run)
    zkAt,             \* call -> the time at which it ran (history)
    zkClock,          \* the wall clock of the process
    \* two calls of generateZKInput with arguments of their own
    seedArgs,         \* call -> its arguments (NoArgs until chosen)
    seedOut,          \* call -> its result (NoOut until the call has run)
    \* a call of poseidonHash
    phInputs,         \* the argument of the call (NoArgs until chosen)
    phOut,            \* its result (NoOut until the call has run)
    \* a call of convertBase and a conversion back
    cvArgs,           \* the arguments { inArrayLE, inBase, outBase } (NoArgs until chosen)
    cvOut,            \* the result of the call (NoOut until the call has run)
    cvBack,           \* the results of converting cvOut back (NoOut until done)
    \* a call of getUnsignedPaddedJWT
    pdArgs,           \* the JWT: its header and payload characters (NoArgs until chosen)
    pdOut,            \* the result of the call (NoOut until the call has run)
    \* the claim extraction of a generateZKInput call
    kcArgs,           \* the JWT: its header and its payload's claims (NoArgs until chosen)
    kcOut,            \* the result of the extraction (NoOut until it has run)
    \* a gateway with several worker connections and a caller of getAvailableWorker
    gwWorkers,        \* ProofWebsocketGateway.connectedWorkers, in insertion order
    gwState,          \* socket -> "NEW" | "OPEN" | "CLOSED"
    gwAlive,          \* socket -> ExtendedWebSocket.isAlive
    gwPick,           \* the result of the last getAvailableWorker call (NoOut before it)
    \* the modulus and signature signals of a generateZKInput call
    lbArgs,           \* the numbers of the modulus and of the signature (NoArgs until chosen)
    lbOut,            \* the signals and modulus_F (NoOut until the call has run)
    \* a WebSocketClient whose owner may call close()
    closeCalled       \* client -> close() has been called (history)

\* the variables of the server process
pipelineVars == <<store, processingProofs, connectedWorkers, readyState, isAlive, ticks,
                  timers, outbox, fallbacks, sentCount, timedOut, connectionTimer>>

\* the variables of the worker processes' WebSocketClient objects
clientVars == <<cState, reconnectAttempts, pingTimer, pongTimer, reconnectTimer,
                isPongReceived, closePending>>

\* the history of the gateway's message handler
messageVars == <<discarded>>

\* the variables of a worker process's message handler
workerVars == <<wTasks, cacheFiles, wReplies>>

\* the variables of the auth server's callback handler
authVars == <<proofTable, callbacks>>

\* the variables of the generateZKInput calls
zkVars == <<zkArgs, zkOut, zkAt, zkClock>>

\* the variables of the generateZKInput calls with differing arguments
seedVars == <<seedArgs, seedOut>>

\* the variables of the pure functions of packages/common
\* the variables of the poseidonHash call
hashVars == <<phInputs, phOut>>

\* the variables of the convertBase calls
convVars == <<cvArgs, cvOut, cvBack>>

\* the variables of the getUnsignedPaddedJWT call
padVars == <<pdArgs, pdOut>>

\* the variables of the claim extraction
extVars == <<kcArgs, kcOut>>

\* the variables of the gateway with several connections
gatewayVars == <<gwWorkers, gwState, gwAlive, gwPick>>

\* the variables of the modulus and signature signals
limbVars == <<lbArgs, lbOut>>

\* the history of the WebSocketClient objects' close() calls
closeVars == <<closeCalled>>

commonVars == <<seedVars, hashVars, convVars, padVars, extVars, gatewayVars, limbVars,
                closeVars>>

vars == <<pipelineVars, clientVars, messageVars, workerVars, authVars, zkVars, commonVars>>

\* what a step of the scheduler, the gateway's connection handling or a result
\* handler leaves alone
offPipeline == <<clientVars, messageVars, workerVars, authVars, zkVars, commonVars>>

\* what a step of a WebSocketClient leaves alone
offClient == <<pipelineVars, messageVars, workerVars, authVars, zkVars, commonVars>>

\* what a step of a worker's message handler leaves alone
offWorker == <<pipelineVars, clientVars, messageVars, authVars, zkVars, commonVars>>

\* what a step of the OAuth callback leaves alone
offAuth == <<pipelineVars, clientVars, messageVars, workerVars, zkVars, commonVars>>

\* what a generateZKInput call leaves alone
offZk == <<pipelineVars, clientVars, messageVars, workerVars, authVars, commonVars>>

\* what a pair of generateZKInput calls leaves alone
serviceVars == <<pipelineVars, clientVars, messageVars, workerVars, authVars, zkVars>>

offSeed == <<serviceVars, hashVars, convVars, padVars, extVars, gatewayVars, limbVars,
              closeVars>>

\* what a poseidonHash call leaves alone
offHash == <<serviceVars, seedVars, convVars, padVars, extVars, gatewayVars, limbVars,
              closeVars>>

\* what a convertBase call leaves alone
offConv == <<serviceVars, seedVars, hashVars, padVars, extVars, gatewayVars, limbVars,
              closeVars>>

\* what a getUnsignedPaddedJWT call leaves alone
offPad == <<serviceVars, seedVars, hashVars, convVars, extVars, gatewayVars, limbVars,
             closeVars>>

\* what a claim extraction leaves alone
offExt == <<serviceVars, seedVars, hashVars, convVars, padVars, gatewayVars, limbVars,
             closeVars>>

\* what a step of the gateway with several connections leaves alone
offGateway == <<serviceVars, seedVars, hashVars, convVars, padVars, extVars, limbVars,
                 closeVars>>

\* what a close() call on a WebSocketClient leaves alone
offClose == <<pipelineVars, messageVars, workerVars, authVars, zkVars, seedVars, hashVars,
              convVars, padVars, extVars, gatewayVars, limbVars>>

\* what the computation of the modulus and signature signals leaves alone
offLimb == <<serviceVars, seedVars, hashVars, convVars, padVars, extVars, gatewayVars,
              closeVars>>

\* ------------------------------------------------------------- the store
InputsOf(j) == <<"inputs", j>>
FieldsOf(j) == <<"fields", j>>
ProofOf(j) == <<"proof", j>>
PublicOf(j) == <<"public", j>>

AbsentRow == [status |-> "absent", createdAt |-> 0, inputs |-> NullJson,
              fields |-> NullJson, proof |-> NullJson, public |-> NullJson]

Exists(s, j) == s[j].status # "absent"

\* createdAt defaults to the insertion time: later inserts get later stamps
Now(s) == Cardinality({j \in Jobs : Exists(s, j)}) + 1

\* prisma.proof.create({ ..., status: 'waiting' })
WaitingRow(s, j) == [status |-> "waiting", createdAt |-> Now(s), inputs |-> InputsOf(j),
                     fields |-> FieldsOf(j), proof |-> NullJson, public |-> NullJson]

\* prisma.proof.create({ ..., inputs: {}, fields: null, status: 'failed' })
FailedRow(s, j) == [status |-> "failed", createdAt |-> Now(s), inputs |-> <<"empty">>,
                    fields |-> NullJson, proof |-> NullJson, public |-> NullJson]

\* handleGoogleCallback: the ZK input was built and the job is stored waiting
CreateJob(j) ==
    /\ ~Exists(store, j)
    /\ store' = [store EXCEPT ![j] = WaitingRow(store, j)]
    /\ UNCHANGED <<processingProofs, connectedWorkers, readyState, isAlive, ticks,
                   timers, outbox, fallbacks, sentCount, timedOut>>
    /\ UNCHANGED <<connectionTimer, offPipeline>>

\* handleGoogleCallback, catch branch: the job is stored failed, with no fields
CreateFailedJob(j) ==
    /\ ~Exists(store, j)
    /\ store' = [store EXCEPT ![j] = FailedRow(store, j)]
    /\ UNCHANGED <<processingProofs, connectedWorkers, readyState, isAlive, ticks,
                   timers, outbox, fallbacks, sentCount, timedOut>>
    /\ UNCHANGED <<connectionTimer, offPipeline>>

\* ------------------------------------------------------------- the gateway
Range(q) == {q[i] : i \in 1..Len(q)}

Without(q, w) == SelectSeq(q, LAMBDA x : x # w)

\* handleConnection: register the socket, mark it alive, arm the liveness timer
WorkerConnect(w) ==
    /\ readyState[w] = "NEW"
    /\ \A v \in Sockets : v < w => readyState[v] # "NEW"
    /\ connectedWorkers' = Append(connectedWorkers, w)
    /\ readyState' = [readyState EXCEPT ![w] = "OPEN"]
    /\ isAlive' = [isAlive EXCEPT ![w] = TRUE]
    /\ connectionTimer' = [connectionTimer EXCEPT ![w] = "armed"]
    /\ UNCHANGED <<store, processingProofs, ticks, timers, outbox, fallbacks,
                   sentCount, timedOut>>
    /\ UNCHANGED offPipeline

\* the peer or the network closes the socket; the 'close' event is not yet delivered
SocketClose(w) ==
    /\ readyState[w] = "OPEN"
    /\ readyState' = [readyState EXCEPT ![w] = "CLOSED"]
    /\ UNCHANGED <<store, processingProofs, connectedWorkers, isAlive, ticks, timers,
                   outbox, fallbacks, sentCount, timedOut>>
    /\ UNCHANGED <<connectionTimer, offPipeline>>

\* handleDisconnect: drop the socket from the map and clear its liveness timer
HandleDisconnect(w) ==
    /\ readyState[w] = "CLOSED"
    /\ w \in Range(connectedWorkers)
    /\ connectedWorkers' = Without(connectedWorkers, w)
    /\ connectionTimer' = [connectionTimer EXCEPT ![w] = "none"]
    /\ UNCHANGED <<store, processingProofs, readyState, isAlive, ticks, timers,
                   outbox, fallbacks, sentCount, timedOut>>
    /\ UNCHANGED offPipeline

\* the 'ping' handler: mark the socket alive, answer with a pong and replace
\* the liveness timer by a fresh one
ServerPing(w) ==
    /\ readyState[w] = "OPEN"
    /\ w \in Range(connectedWorkers)
    /\ isAlive' = [isAlive EXCEPT ![w] = TRUE]
    /\ connectionTimer' = [connectionTimer EXCEPT ![w] = "armed"]
    /\ UNCHANGED <<store, processingProofs, connectedWorkers, readyState, ticks, timers,
                   outbox, fallbacks, sentCount, timedOut>>
    /\ UNCHANGED offPipeline

\* the liveness timer's callback: if (!client.isAlive) client.terminate()
AfterConnectionTimer(alive, rs) == IF ~alive THEN "CLOSED" ELSE rs

\* CONNECTION_TIMEOUT has passed since the timer was armed (at connect or at
\* the last ping) and the timer fires
ConnectionTimerFire(w) ==
    /\ connectionTimer[w] = "armed"
    /\ connectionTimer' = [connectionTimer EXCEPT ![w] = "none"]
    /\ readyState' = [readyState EXCEPT ![w] = AfterConnectionTimer(isAlive[w], @)]
    /\ UNCHANGED <<store, processingProofs, connectedWorkers, isAlive, ticks, timers,
                   outbox, fallbacks, sentCount, timedOut>>
    /\ UNCHANGED offPipeline

\* getAvailableWorker's test without the readyState comparison
IsAvailableAnyState(alive, rs) == alive

\* client.isAlive && client.readyState === WebSocket.OPEN
IsAvailable(alive, rs) == alive /\ rs = "OPEN"

Available(w) == IsAvailable(isAlive[w], readyState[w])

\* getAvailableWorker's loop over the map's entries, in insertion order: the
\* first entry that passes the test is returned, null after the last
RECURSIVE FirstAvailable(_, _, _)
FirstAvailable(workers, alive, state) ==
    IF workers = <<>> THEN NoWorker
    ELSE IF IsAvailable(alive[Head(workers)], state[Head(workers)]) THEN Head(workers)
    ELSE FirstAvailable(Tail(workers), alive, state)

\* getAvailableWorker: the first map entry that is alive and OPEN, else null
GetAvailableWorker == FirstAvailable(connectedWorkers, isAlive, readyState)

\* ------------------------------------------------------------- several workers
\* The gateway with MaxGwSockets worker connections, which open and close in
\* any order, and a caller of getAvailableWorker. Nothing in the server sets
\* isAlive to false, so a connection's flag is true from handleConnection on.
\* handleConnection: register the socket and mark it alive
GwConnect(w) ==
    /\ gwState[w] = "NEW"
    /\ gwWorkers' = Append(gwWorkers, w)
    /\ gwState' = [gwState EXCEPT ![w] = "OPEN"]
    /\ gwAlive' = [gwAlive EXCEPT ![w] = TRUE]
    /\ UNCHANGED gwPick
    /\ UNCHANGED offGateway

\* the peer or the network closes the socket; 'close' is not yet delivered
GwSocketClose(w) ==
    /\ gwState[w] = "OPEN"
    /\ gwState' = [gwState EXCEPT ![w] = "CLOSED"]
    /\ UNCHANGED <<gwWorkers, gwAlive, gwPick>>
    /\ UNCHANGED offGateway

\* handleDisconnect: drop the socket from the map
GwDisconnect(w) ==
    /\ gwState[w] = "CLOSED"
    /\ w \in Range(gwWorkers)
    /\ gwWorkers' = Without(gwWorkers, w)
    /\ UNCHANGED <<gwState, gwAlive, gwPick>>
    /\ UNCHANGED offGateway

\* a call of getAvailableWorker (the scheduler's tick makes it)
GwGetAvailableWorker ==
    /\ gwPick' = [done |-> TRUE, worker |-> FirstAvailable(gwWorkers, gwAlive, gwState)]
    /\ UNCHANGED <<gwWorkers, gwState, gwAlive>>
    /\ UNCHANGED offGateway

\* sendTask with the payload's fields taken from the wrong property
TaskMessageWrongFields(worker, proof) ==
    [to |-> worker, task |-> "generateProof", proofId |-> proof.id,
     payload |-> [inputs |-> proof.inputs, fields |-> proof.inputs]]

\* sendTask: the JSON message built from the row the tick read
TaskMessage(worker, proof) ==
    [to |-> worker, task |-> "generateProof", proofId |-> proof.id,
     payload |-> [inputs |-> proof.inputs, fields |-> proof.fields]]

\* The outstanding task messages are kept ordered by proofId: workers take
\* and answer them in any order, so their order of sending carries no
\* information.
Insert(q, m) ==
    LET k == Cardinality({i \in 1..Len(q) : q[i].proofId <= m.proofId})
    IN SubSeq(q, 1, k) \o <<m>> \o SubSeq(q, k + 1, Len(q))

\* ws send(): written to the socket when it is OPEN, dropped otherwise
Transmit(q, m) == IF readyState[m.to] = "OPEN" THEN Insert(q, m) ELSE q

\* ------------------------------------------------------------- the scheduler
\* Each element of Ticks is a slot for one invocation of handleProofTasks
\* together with the timeout closure it arms; a slot whose invocation and
\* closure have both finished is free for a later cron firing.
NoProof == [id |-> NoJob, inputs |-> NullJson, fields |-> NullJson]

IdleTick == [pc |-> "idle", proof |-> NoProof, worker |-> NoWorker]

NoTimer == [pc |-> "none", cur |-> "unread"]

WaitingJobs(s) == {j \in Jobs : s[j].status = "waiting"}

\* findFirst with the ordering reversed (orderBy: { createdAt: 'desc' })
FindFirstNewest(s) ==
    IF WaitingJobs(s) = {} THEN NoJob
    ELSE CHOOSE j \in WaitingJobs(s) :
             \A k \in WaitingJobs(s) : s[j].createdAt >= s[k].createdAt

\* findFirst({ where: { status: 'waiting' }, orderBy: { createdAt: 'asc' } })
FindFirst(s) ==
    IF WaitingJobs(s) = {} THEN NoJob
    ELSE CHOOSE j \in WaitingJobs(s) :
             \A k \in WaitingJobs(s) : s[j].createdAt <= s[k].createdAt

Snapshot(s, j) ==
    IF j = NoJob THEN NoProof
    ELSE [id |-> j, inputs |-> s[j].inputs, fields |-> s[j].fields]

\* the free slot a new invocation takes
FreeSlot(t) == ticks[t].pc = "idle" /\ \A u \in Ticks : u < t => ticks[u].pc # "idle"

\* the cron fires and the findFirst query runs (a findFirst that throws ends
\* the invocation in the outer catch with nothing changed: a stuttering step)
TickFindFirst(t) ==
    /\ FreeSlot(t)
    /\ ticks' = [ticks EXCEPT ![t] = [pc |-> "found",
                                       proof |-> Snapshot(store, FindFirst(store)),
                                       worker |-> NoWorker]]
    /\ UNCHANGED <<store, processingProofs, connectedWorkers, readyState, isAlive,
                   timers, outbox, fallbacks, sentCount, timedOut>>
    /\ UNCHANGED <<connectionTimer, offPipeline>>

\* the three early returns of the tick
TickReturns(proof, worker) ==
    \/ proof.id = NoJob
    \/ proof.id \in processingProofs
    \/ worker = NoWorker

\* the claim taken before the worker is looked up
ProcessingBeforeWorkerCheck(proof, worker) ==
    IF proof.id = NoJob THEN processingProofs
    ELSE processingProofs \cup {proof.id}

\* processingProofs after the checks: the id is added only past all returns
ProcessingAfterCheck(proof, worker) ==
    IF TickReturns(proof, worker) THEN processingProofs
    ELSE processingProofs \cup {proof.id}

\* the tick resumes after findFirst: the checks, the worker pick, the claim
TickCheck(t) ==
    /\ ticks[t].pc = "found"
    /\ LET proof == ticks[t].proof
           worker == GetAvailableWorker
       IN /\ processingProofs' = ProcessingAfterCheck(proof, worker)
          /\ ticks' = [ticks EXCEPT ![t] =
                 IF TickReturns(proof, worker)
                 THEN IdleTick
                 ELSE [@ EXCEPT !.pc = "update", !.worker = worker]]
    /\ UNCHANGED <<store, connectedWorkers, readyState, isAlive, timers, outbox,
                   fallbacks, sentCount, timedOut>>
    /\ UNCHANGED <<connectionTimer, offPipeline>>

\* update({ where: { id }, data: { status: 'generating' } }) takes effect
TickUpdate(t) ==
    /\ ticks[t].pc = "update"
    /\ store' = [store EXCEPT ![ticks[t].proof.id].status = "generating"]
    /\ ticks' = [ticks EXCEPT ![t].pc = "updated"]
    /\ UNCHANGED <<processingProofs, connectedWorkers, readyState, isAlive, timers,
                   outbox, fallbacks, sentCount, timedOut>>
    /\ UNCHANGED <<connectionTimer, offPipeline>>

\* the update throws: the outer catch logs, nothing is undone, the tick ends
TickUpdateFail(t) ==
    /\ ticks[t].pc = "update"
    /\ ticks' = [ticks EXCEPT ![t] = IdleTick]
    /\ UNCHANGED <<store, processingProofs, connectedWorkers, readyState, isAlive,
                   timers, outbox, fallbacks, sentCount, timedOut>>
    /\ UNCHANGED <<connectionTimer, offPipeline>>

\* setTimeout(closure, PROOF_TIMEOUT)
ArmedTimer == [pc |-> "armed", cur |-> "unread"]

\* the tick resumes after the update: sendTask, then setTimeout; the closure
\* keeps proof.id
TickSend(t) ==
    /\ ticks[t].pc = "updated"
    /\ LET m == TaskMessage(ticks[t].worker, ticks[t].proof)
       IN /\ outbox' = Transmit(outbox, m)
          /\ sentCount' = [sentCount EXCEPT ![m.proofId] =
                              @ + Len(Transmit(outbox, m)) - Len(outbox)]
    /\ timers' = [timers EXCEPT ![t] = ArmedTimer]
    /\ ticks' = [ticks EXCEPT ![t].pc = "done", ![t].worker = NoWorker]
    /\ UNCHANGED <<store, processingProofs, connectedWorkers, readyState, isAlive,
                   fallbacks, timedOut>>
    /\ UNCHANGED <<connectionTimer, offPipeline>>

\* ------------------------------------------------------------- the timeout closure
\* the status test of the scheduler's earlier revision: status === 'PROCESSING'
StillProcessing(cur) == cur = "PROCESSING"

\* currentProof && currentProof.status === 'generating'
StillGenerating(cur) == cur = "generating"

\* the timer fires and findUnique({ where: { id } }) runs
TimerRead(t) ==
    /\ timers[t].pc = "armed"
    /\ timers' = [timers EXCEPT ![t].pc = "read",
                                ![t].cur = store[ticks[t].proof.id].status]
    /\ UNCHANGED <<store, processingProofs, connectedWorkers, readyState, isAlive,
                   ticks, outbox, fallbacks, sentCount, timedOut>>
    /\ UNCHANGED <<connectionTimer, offPipeline>>

\* findUnique throws: the closure's catch logs; finally is next
TimerReadFail(t) ==
    /\ timers[t].pc = "armed"
    /\ timers' = [timers EXCEPT ![t].pc = "finally"]
    /\ UNCHANGED <<store, processingProofs, connectedWorkers, readyState, isAlive,
                   ticks, outbox, fallbacks, sentCount, timedOut>>
    /\ UNCHANGED <<connectionTimer, offPipeline>>

\* update({ where: { id }, data: { status: 'failed' } }) takes effect
TimerUpdate(t) ==
    /\ timers[t].pc = "read"
    /\ StillGenerating(timers[t].cur)
    /\ store' = [store EXCEPT ![ticks[t].proof.id].status = "failed"]
    /\ timedOut' = [timedOut EXCEPT ![ticks[t].proof.id] = TRUE]
    /\ timers' = [timers EXCEPT ![t].pc = "finally"]
    /\ UNCHANGED <<processingProofs, connectedWorkers, readyState, isAlive, ticks,
                   outbox, fallbacks, sentCount>>
    /\ UNCHANGED <<connectionTimer, offPipeline>>

\* the update throws: the closure's catch logs; finally is next
TimerUpdateFail(t) ==
    /\ timers[t].pc = "read"
    /\ StillGenerating(timers[t].cur)
    /\ timers' = [timers EXCEPT ![t].pc = "finally"]
    /\ UNCHANGED <<store, processingProofs, connectedWorkers, readyState, isAlive,
                   ticks, outbox, fallbacks, sentCount, timedOut>>
    /\ UNCHANGED <<connectionTimer, offPipeline>>

\* the closure's finally block without its delete
ProcessingAfterTimerKept(processing, id) == processing

\* finally { this.processingProofs.delete(proof.id) }
ProcessingAfterTimer(processing, id) == processing \ {id}

\* finally { processingProofs.delete(proof.id) }; the closure is finished
TimerFinally(t) ==
    /\ \/ timers[t].pc = "finally"
       \/ timers[t].pc = "read" /\ ~StillGenerating(timers[t].cur)
    /\ processingProofs' = ProcessingAfterTimer(processingProofs, ticks[t].proof.id)
    /\ timers' = [timers EXCEPT ![t] = NoTimer]
    /\ ticks' = [ticks EXCEPT ![t] = IdleTick]
    /\ UNCHANGED <<store, connectedWorkers, readyState, isAlive, outbox, fallbacks,
                   sentCount, timedOut>>
    /\ UNCHANGED <<connectionTimer, offPipeline>>

\* ------------------------------------------------------------- the worker
RemoveAt(q, i) == SubSeq(q, 1, i - 1) \o SubSeq(q, i + 1, Len(q))

\* worker.ts message handler: generateProof threw (or the worker went away),
\* so no reply is sent for the task
WorkerNoReply(i) ==
    /\ i \in 1..Len(outbox)
    /\ outbox' = RemoveAt(outbox, i)
    /\ UNCHANGED <<store, processingProofs, connectedWorkers, readyState, isAlive,
                   ticks, timers, fallbacks, sentCount, timedOut>>
    /\ UNCHANGED <<connectionTimer, offPipeline>>

\* worker.ts message handler: the reply names the task's data.proofId
ReplyProofId(m) == m.proofId

\* ------------------------------------------------------------- handleProofResult
\* data of the first update: { status: 'generated', proof, public }
GeneratedRow(row, j) ==
    [row EXCEPT !.status = "generated", !.proof = ProofOf(j), !.public = PublicOf(j)]

\* the worker's reply to a task arrives on its socket's 'message' event and
\* the first update takes effect
HandleProofResult(i) ==
    /\ i \in 1..Len(outbox)
    /\ readyState[outbox[i].to] = "OPEN"
    /\ LET j == ReplyProofId(outbox[i])
       IN store' = [store EXCEPT ![j] = GeneratedRow(@, j)]
    /\ outbox' = RemoveAt(outbox, i)
    /\ UNCHANGED <<processingProofs, connectedWorkers, readyState, isAlive, ticks,
                   timers, fallbacks, sentCount, timedOut>>
    /\ UNCHANGED <<connectionTimer, offPipeline>>

\* the reply arrives and the first update throws: the catch branch will try
\* status 'failed'
HandleProofResultFail(i) ==
    /\ i \in 1..Len(outbox)
    /\ readyState[outbox[i].to] = "OPEN"
    /\ fallbacks' = [fallbacks EXCEPT ![ReplyProofId(outbox[i])] = @ + 1]
    /\ outbox' = RemoveAt(outbox, i)
    /\ UNCHANGED <<store, processingProofs, connectedWorkers, readyState, isAlive,
                   ticks, timers, sentCount, timedOut>>
    /\ UNCHANGED <<connectionTimer, offPipeline>>

\* the catch branch's update writing another status
FallbackRowWaiting(row) == [row EXCEPT !.status = "waiting"]

\* data of the second update: { status: 'failed' }
FallbackRow(row) == [row EXCEPT !.status = "failed"]

\* the catch branch's update({ data: { status: 'failed' } }) takes effect
HandleFallback(j) ==
    /\ fallbacks[j] > 0
    /\ fallbacks' = [fallbacks EXCEPT ![j] = @ - 1]
    /\ store' = [store EXCEPT ![j] = FallbackRow(@)]
    /\ UNCHANGED <<processingProofs, connectedWorkers, readyState, isAlive, ticks,
                   timers, outbox, sentCount, timedOut>>
    /\ UNCHANGED <<connectionTimer, offPipeline>>

\* the second update throws too: logged and swallowed
HandleFallbackFail(j) ==
    /\ fallbacks[j] > 0
    /\ fallbacks' = [fallbacks EXCEPT ![j] = @ - 1]
    /\ UNCHANGED <<store, processingProofs, connectedWorkers, readyState, isAlive,
                   ticks, timers, outbox, sentCount, timedOut>>
    /\ UNCHANGED <<connectionTimer, offPipeline>>

\* ------------------------------------------------------------- other messages
\* what a worker socket can deliver besides a well-formed result: text that
\* is not JSON, and JSON whose task is not 'generateProof'
OtherMessages ==
    {[json |-> FALSE, task |-> "", proofId |-> NoJob]}
        \cup {[json |-> TRUE, task |-> "other", proofId |-> j] : j \in Jobs}

\* the message handler without its task test
MessageRouteAnyTask(m) == IF ~m.json THEN "parseError" ELSE "result"

\* the 'message' handler: JSON.parse throws into the catch; a task other than
\* 'generateProof' is logged; 'generateProof' goes to handleProofResult
MessageRoute(m) ==
    IF ~m.json THEN "parseError"
    ELSE IF m.task = "generateProof" THEN "result" ELSE "unknown"

\* the 'message' handler runs on a message of OtherMessages
HandleOtherMessage(w, m) ==
    /\ readyState[w] = "OPEN"
    /\ w \in Range(connectedWorkers)
    /\ store' = IF MessageRoute(m) = "result" /\ Exists(store, m.proofId)
                THEN [store EXCEPT ![m.proofId] = GeneratedRow(@, m.proofId)]
                ELSE store
    /\ discarded' = [discarded EXCEPT ![w] = TRUE]
    /\ UNCHANGED <<processingProofs, connectedWorkers, readyState, isAlive, ticks,
                   timers, outbox, fallbacks, sentCount, timedOut, connectionTimer>>
    /\ UNCHANGED <<clientVars, workerVars, authVars, zkVars, commonVars>>

\* ------------------------------------------------------------- unsolicited results
\* a task message for job j is outstanding at worker w
Outstanding(w, j) == \E i \in DOMAIN outbox : outbox[i].to = w /\ outbox[i].proofId = j

\* A connected worker sends { task: 'generateProof', proofId: j, results } for
\* a job it holds no task for. The 'message' handler passes it to
\* handleProofResult, whose update names the row by id alone: it takes effect
\* when the row exists; when it does not, both updates reject and are logged.
HandleUnsolicitedResult(w, j) ==
    /\ readyState[w] = "OPEN"
    /\ w \in Range(connectedWorkers)
    /\ ~Outstanding(w, j)
    /\ store' = IF MessageRoute([json |-> TRUE, task |-> "generateProof", proofId |-> j])
                     = "result" /\ Exists(store, j)
                THEN [store EXCEPT ![j] = GeneratedRow(@, j)]
                ELSE store
    /\ UNCHANGED <<processingProofs, connectedWorkers, readyState, isAlive, ticks,
                   timers, outbox, fallbacks, sentCount, timedOut>>
    /\ UNCHANGED <<connectionTimer, offPipeline>>

\* ------------------------------------------------------------- WebSocketClient
\* One WebSocketClient per worker process (worker.ts constructs exactly one).
\* The server and the network are its environment: the connection opens or
\* errors, a pong arrives or not, the peer closes the socket.
NoReconnect == [armed |-> FALSE, delay |-> 0]

RECURSIVE Pow2(_)
Pow2(n) == IF n = 0 THEN 1 ELSE 2 * Pow2(n - 1)

\* RECONNECT_INTERVAL * Math.pow(2, this.reconnectAttempts)
BackoffDelay(n) == RECONNECT_INTERVAL * Pow2(n)

\* attemptReconnect: replace the reconnect timer by one with the backoff delay
AttemptReconnect(n) == [armed |-> TRUE, delay |-> BackoffDelay(n)]

\* connect(): logs when the socket is CLOSED and sets reconnectAttempts = 0;
\* it creates no socket, so readyState stays as it is
Connect(n) == 0

\* the pong timeout's test inverted
PongMissedInverted(received) == received

\* the pong timeout's test: if (!this.isPongReceived)
PongMissed(received) == ~received

\* 'open': handleOpen resets the counter and starts the ping interval
ClientOpen(c) ==
    /\ cState[c] = "CONNECTING"
    /\ cState' = [cState EXCEPT ![c] = "OPEN"]
    /\ reconnectAttempts' = [reconnectAttempts EXCEPT ![c] = 0]
    /\ pingTimer' = [pingTimer EXCEPT ![c] = TRUE]
    /\ UNCHANGED <<pongTimer, reconnectTimer, isPongReceived, closePending>>
    /\ UNCHANGED offClient

\* 'error' (while connecting or open): handleError clears the timers,
\* terminates the socket and schedules a reconnect; ws emits 'close' after it
ClientError(c) ==
    /\ cState[c] \in {"CONNECTING", "OPEN"}
    /\ cState' = [cState EXCEPT ![c] = "CLOSED"]
    /\ closePending' = [closePending EXCEPT ![c] = TRUE]
    /\ pingTimer' = [pingTimer EXCEPT ![c] = FALSE]
    /\ pongTimer' = [pongTimer EXCEPT ![c] = "none"]
    /\ reconnectTimer' = [reconnectTimer EXCEPT ![c] = AttemptReconnect(reconnectAttempts[c])]
    /\ UNCHANGED <<reconnectAttempts, isPongReceived>>
    /\ UNCHANGED offClient

\* the server or the network closes the open socket; 'close' is owed
ClientPeerClose(c) ==
    /\ cState[c] = "OPEN"
    /\ cState' = [cState EXCEPT ![c] = "CLOSED"]
    /\ closePending' = [closePending EXCEPT ![c] = TRUE]
    /\ UNCHANGED <<reconnectAttempts, pingTimer, pongTimer, reconnectTimer, isPongReceived>>
    /\ UNCHANGED offClient

\* 'close': handleClose clears the three timers and schedules a reconnect
ClientHandleClose(c) ==
    /\ closePending[c]
    /\ closePending' = [closePending EXCEPT ![c] = FALSE]
    /\ pingTimer' = [pingTimer EXCEPT ![c] = FALSE]
    /\ pongTimer' = [pongTimer EXCEPT ![c] = "none"]
    /\ reconnectTimer' = [reconnectTimer EXCEPT ![c] = AttemptReconnect(reconnectAttempts[c])]
    /\ UNCHANGED <<cState, reconnectAttempts, isPongReceived>>
    /\ UNCHANGED offClient

\* the ping interval fires on an open socket: a ping is sent and its pong
\* timeout armed. PONG_TIMEOUT is shorter than PING_INTERVAL, so the previous
\* ping's timeout has fired or been cleared by then. (On a socket that is not
\* OPEN the callback does nothing.)
ClientPingTick(c) ==
    /\ pingTimer[c]
    /\ cState[c] = "OPEN"
    /\ PONG_TIMEOUT < PING_INTERVAL => pongTimer[c] = "none"
    /\ isPongReceived' = [isPongReceived EXCEPT ![c] = FALSE]
    /\ pongTimer' = [pongTimer EXCEPT ![c] = "armed"]
    /\ UNCHANGED <<cState, reconnectAttempts, pingTimer, reconnectTimer, closePending>>
    /\ UNCHANGED offClient

\* 'pong' within PONG_TIMEOUT of the ping: handlePong records it and clears
\* the pong timeout
ClientPong(c) ==
    /\ cState[c] = "OPEN"
    /\ pongTimer[c] = "armed"
    /\ isPongReceived' = [isPongReceived EXCEPT ![c] = TRUE]
    /\ pongTimer' = [pongTimer EXCEPT ![c] = "none"]
    /\ UNCHANGED <<cState, reconnectAttempts, pingTimer, reconnectTimer, closePending>>
    /\ UNCHANGED offClient

\* the pong timeout fires: without a pong the socket is terminated ('close'
\* is owed if it was open) and a reconnect is scheduled
ClientPongTimeout(c) ==
    /\ pongTimer[c] = "armed"
    /\ pongTimer' = [pongTimer EXCEPT ![c] = "none"]
    /\ IF PongMissed(isPongReceived[c])
       THEN /\ cState' = [cState EXCEPT ![c] = "CLOSED"]
            /\ closePending' = [closePending EXCEPT ![c] = (cState[c] # "CLOSED") \/ @]
            /\ reconnectTimer' = [reconnectTimer EXCEPT ![c] =
                                     AttemptReconnect(reconnectAttempts[c])]
       ELSE UNCHANGED <<cState, closePending, reconnectTimer>>
    /\ UNCHANGED <<reconnectAttempts, pingTimer, isPongReceived>>
    /\ UNCHANGED offClient

\* the reconnect timeout fires: reconnectAttempts++, then connect()
ClientReconnectFire(c) ==
    /\ reconnectTimer[c].armed
    /\ reconnectTimer' = [reconnectTimer EXCEPT ![c] = NoReconnect]
    /\ reconnectAttempts' = [reconnectAttempts EXCEPT ![c] = Connect(@ + 1)]
    /\ UNCHANGED <<cState, pingTimer, pongTimer, isPongReceived, closePending>>
    /\ UNCHANGED offClient

\* close(): clearTimers(), then super.close(). On a socket that is CLOSED
\* ws returns at once. On an open socket ws starts the closing handshake, on
\* a connecting one it aborts the handshake (emitting 'error' just before
\* 'close', so that handleClose's effect is what remains of the two); in both
\* cases the socket is no longer OPEN and 'close' is owed.
ClientClose(c) ==
    /\ ~closeCalled[c]
    /\ closeCalled' = [closeCalled EXCEPT ![c] = TRUE]
    /\ pingTimer' = [pingTimer EXCEPT ![c] = FALSE]
    /\ pongTimer' = [pongTimer EXCEPT ![c] = "none"]
    /\ reconnectTimer' = [reconnectTimer EXCEPT ![c] = NoReconnect]
    /\ cState' = [cState EXCEPT ![c] = "CLOSED"]
    /\ closePending' = [closePending EXCEPT ![c] = (cState[c] # "CLOSED") \/ @]
    /\ UNCHANGED <<reconnectAttempts, isPongReceived>>
    /\ UNCHANGED offClose

\* ------------------------------------------------------------- the worker's handler
\* worker.ts: every task message starts its own invocation of the async
\* message handler, so several generateProof calls can be in progress at
\* once. Task t carries proofId t, inputs that belong to t alone, and a
\* fields.address_seed; generateProof works in the directory
\* `${baseCacheDir}/${fields.address_seed}`. A file's content is recorded as
\* the task whose inputs it was derived from (NoContent: the file is absent).
NoContent == 0

NoTask == [pc |-> "none", seed |-> 0, proof |-> NoContent, public |-> NoContent]

NoFiles == [input |-> NoContent, witness |-> NoContent, proof |-> NoContent,
            public |-> NoContent]

\* the cache directory of a task
CacheDir(task) == task.seed

\* 'message': JSON.parse, the task test, and generateProof up to its first await
WorkerReceive(t, sd) ==
    /\ wTasks[t].pc = "none"
    /\ wTasks' = [wTasks EXCEPT ![t] = [NoTask EXCEPT !.pc = "write", !.seed = sd]]
    /\ UNCHANGED <<cacheFiles, wReplies>>
    /\ UNCHANGED offWorker

\* mkdirp(cacheDir) and writeJson(paths.input, inputs)
WorkerWriteInput(t) ==
    /\ wTasks[t].pc = "write"
    /\ cacheFiles' = [cacheFiles EXCEPT ![CacheDir(wTasks[t])].input = t]
    /\ wTasks' = [wTasks EXCEPT ![t].pc = "witness"]
    /\ UNCHANGED wReplies
    /\ UNCHANGED offWorker

\* the witness binary: reads paths.input, writes paths.witness
WorkerWitness(t) ==
    /\ wTasks[t].pc = "witness"
    /\ cacheFiles' = [cacheFiles EXCEPT ![CacheDir(wTasks[t])].witness =
                         cacheFiles[CacheDir(wTasks[t])].input]
    /\ wTasks' = [wTasks EXCEPT ![t].pc = "prove"]
    /\ UNCHANGED wReplies
    /\ UNCHANGED offWorker

\* the prover binary: reads paths.witness, writes paths.proof and paths.public
WorkerProve(t) ==
    /\ wTasks[t].pc = "prove"
    /\ cacheFiles' = [cacheFiles EXCEPT
                         ![CacheDir(wTasks[t])].proof = cacheFiles[CacheDir(wTasks[t])].witness,
                         ![CacheDir(wTasks[t])].public = cacheFiles[CacheDir(wTasks[t])].witness]
    /\ wTasks' = [wTasks EXCEPT ![t].pc = "read"]
    /\ UNCHANGED wReplies
    /\ UNCHANGED offWorker

\* readJson(paths.proof), one of the two reads of the Promise.all
WorkerReadProof(t) ==
    /\ wTasks[t].pc = "read"
    /\ wTasks[t].proof = NoContent
    /\ wTasks' = [wTasks EXCEPT ![t].proof = cacheFiles[CacheDir(wTasks[t])].proof]
    /\ UNCHANGED <<cacheFiles, wReplies>>
    /\ UNCHANGED offWorker

\* readJson(paths.public), the other read
WorkerReadPublic(t) ==
    /\ wTasks[t].pc = "read"
    /\ wTasks[t].public = NoContent
    /\ wTasks' = [wTasks EXCEPT ![t].public = cacheFiles[CacheDir(wTasks[t])].public]
    /\ UNCHANGED <<cacheFiles, wReplies>>
    /\ UNCHANGED offWorker

\* a step of generateProof throws: the catch rethrows, the handler's await
\* rejects and nothing is sent
WorkerStepFail(t) ==
    /\ wTasks[t].pc \in {"write", "witness", "prove", "read"}
    /\ wTasks' = [wTasks EXCEPT ![t].pc = "failed"]
    /\ UNCHANGED <<cacheFiles, wReplies>>
    /\ UNCHANGED offWorker

\* the reply: { task, proofId: data.proofId, results: result }
ResultMessage(t, task) == [proofId |-> t, proof |-> task.proof, public |-> task.public]

\* generateProof has returned: ws.send(...)
WorkerSend(t) ==
    /\ wTasks[t].pc = "read"
    /\ wTasks[t].proof # NoContent
    /\ wTasks[t].public # NoContent
    /\ wReplies' = wReplies \cup {ResultMessage(t, wTasks[t])}
    /\ wTasks' = [wTasks EXCEPT ![t].pc = "done"]
    /\ UNCHANGED cacheFiles
    /\ UNCHANGED offWorker

\* ------------------------------------------------------------- the OAuth callback
\* AuthController.handleGoogleCallback from the point where the state cookie
\* has been verified and the nonce record found by its auth state. The nonce
\* record is not consumed, so a callback can be repeated for the same nonce,
\* and several callbacks can be in progress at once.
NoCallback == [pc |-> "idle", nonce |-> 0]

\* a proof table whose nonce column carries no unique constraint
NonceTakenNoConstraint(table, n) == FALSE

\* proof.nonce is a unique column (ProofService looks a proof up with
\* findUnique({ where: { nonce } })): a create for a nonce that has a row throws
NonceTaken(table, n) == \E i \in DOMAIN table : table[i].nonce = n

\* the request arrives with the state of nonce n; the token is exchanged and
\* the user upserted
CallbackBegin(k, n) ==
    /\ callbacks[k].pc = "idle"
    /\ callbacks' = [callbacks EXCEPT ![k] = [pc |-> "try", nonce |-> n]]
    /\ UNCHANGED proofTable
    /\ UNCHANGED offAuth

\* try: the ZK input is built and proof.create({ ..., status: 'waiting' }) runs
CallbackTryCreate(k) ==
    /\ callbacks[k].pc = "try"
    /\ IF NonceTaken(proofTable, callbacks[k].nonce)
       THEN /\ callbacks' = [callbacks EXCEPT ![k].pc = "catch"]
            /\ UNCHANGED proofTable
       ELSE /\ proofTable' = Append(proofTable,
                                    [nonce |-> callbacks[k].nonce, status |-> "waiting"])
            /\ callbacks' = [callbacks EXCEPT ![k].pc = "done"]
    /\ UNCHANGED offAuth

\* try: generateSalt, the certificate fetch, generateZKInput or the store throws
CallbackTryThrow(k) ==
    /\ callbacks[k].pc = "try"
    /\ callbacks' = [callbacks EXCEPT ![k].pc = "catch"]
    /\ UNCHANGED proofTable
    /\ UNCHANGED offAuth

\* catch: proof.create({ ..., status: 'failed' }); if it throws, the
\* exception leaves the handler
CallbackCatchCreate(k) ==
    /\ callbacks[k].pc = "catch"
    /\ IF NonceTaken(proofTable, callbacks[k].nonce)
       THEN /\ callbacks' = [callbacks EXCEPT ![k].pc = "error"]
            /\ UNCHANGED proofTable
       ELSE /\ proofTable' = Append(proofTable,
                                    [nonce |-> callbacks[k].nonce, status |-> "failed"])
            /\ callbacks' = [callbacks EXCEPT ![k].pc = "done"]
    /\ UNCHANGED offAuth

\* catch: the store is unavailable and the create throws
CallbackCatchThrow(k) ==
    /\ callbacks[k].pc = "catch"
    /\ callbacks' = [callbacks EXCEPT ![k].pc = "error"]
    /\ UNCHANGED proofTable
    /\ UNCHANGED offAuth

\* ------------------------------------------------------------- generateZKInput
\* generateZKInput({ jwt, salt, epoch, keyStr, randomness, certs }) over small
\* domains. A JWT is its header's kid and its payload's sub and aud; a JWKS
\* entry is [kid, n]; a Poseidon hash is the tagged tuple of what is hashed.
ZkCalls == {1, 2}

NoArgs == [chosen |-> FALSE]

NoOut == [done |-> FALSE]

Certs == [kid : Vals, n : Vals]

CertLists == UNION {[1..len -> Certs] : len \in 0..MaxCerts}

ZkArgSet ==
    [chosen : {TRUE}, jwt : [kid : Vals, sub : Vals, aud : Vals], salt : Vals, epoch : Vals,
     keyStr : Vals, randomness : Vals, certs : CertLists]

\* getModulus as if the last entry whose kid is the header's were taken
GetModulusLast(kid, certs) ==
    LET key == SelectSeq(certs, LAMBDA m : m.kid = kid)
    IN IF Len(key) > 0 THEN key[Len(key)].n ELSE 0

\* getModulus: the n of the first entry whose kid is the header's, else throw
\* (0 stands for the thrown 'Modulus not found')
GetModulus(kid, certs) ==
    LET key == SelectSeq(certs, LAMBDA m : m.kid = kid)
    IN IF Len(key) > 0 THEN key[1].n ELSE 0

\* Array.prototype.reverse
Reverse(q) == [i \in 1..Len(q) |-> q[Len(q) + 1 - i]]

\* inputs.modulus taken from modulusZK as it is after the hash of the modulus
ModulusSignalAsLeft(modulusZK) == modulusZK

\* modulus: modulusZK.reverse()
ModulusSignal(modulusZK) == Reverse(modulusZK)

\* getLimbs: the chunks of the number from the most significant one, reversed
\* to little-endian order
GetLimbs(num) == Reverse(<<"hi", num>>)

PoseidonOf(fields) == <<"poseidon", fields>>

\* hashStringToField: the field elements of a string padded to paddingLength
HashStringToField(value, paddingLength) == <<"fields", value, paddingLength>>

\* a salt number blinded with the call's randomness
SaltBNBlinded(a) == <<"bn", a.salt, a.randomness>>

\* saltBN: the big number of the salt string's character codes
SaltBN(a) == <<"bn", a.salt>>

\* getAddressSeed: poseidon of the claim name's hash, the claim value's hash,
\* the audience's hash and the salt's hash
GetAddressSeed(kcNameF, kcValueF, audValueF, salt) ==
    LET hashedSalt == PoseidonOf(<<salt>>)
    IN PoseidonOf(<<kcNameF, kcValueF, audValueF, hashedSalt>>)

\* the function's result, computed in the order of the source: modulusZK is
\* reversed in place for modulusF and reversed in place again for
\* inputs.modulus
ZkResult(a, maxEpoch) ==
    LET modulus == GetModulus(a.jwt.kid, a.certs)
        modulusZK == GetLimbs(modulus)
        reversedOnce == Reverse(modulusZK)
        modulusF == PoseidonOf(reversedOnce)
        headerF == PoseidonOf(<<"header", a.jwt.kid>>)
        kcNameF == PoseidonOf(HashStringToField("sub", 32))
        kcValueF == PoseidonOf(HashStringToField(a.jwt.sub, 115))
        audValueF == PoseidonOf(HashStringToField(a.jwt.aud, 145))
        saltBN == SaltBN(a)
        addressSeed == GetAddressSeed(kcNameF, kcValueF, audValueF, saltBN)
        allInputsHash == PoseidonOf(<<a.keyStr, addressSeed, maxEpoch, headerF, modulusF>>)
    IN IF modulus = 0
       THEN [done |-> TRUE, threw |-> TRUE]
       ELSE [done |-> TRUE, threw |-> FALSE,
             inputs |-> [all_inputs_hash |-> allInputsHash,
                         eph_public_key |-> a.keyStr,
                         jwt_randomness |-> a.randomness,
                         max_epoch |-> maxEpoch,
                         modulus |-> ModulusSignal(reversedOnce),
                         salt |-> saltBN],
             fields |-> [address_seed |-> addressSeed, header |-> headerF]]

\* a variant that stamps the result with the time of the call
GenerateZKInputStamped(a) == ZkResult(a, a.epoch + zkClock)

\* generateZKInput: everything is computed from the arguments
GenerateZKInput(a) == ZkResult(a, a.epoch)

\* the caller fixes the arguments that both calls will receive
ZkChoose(a) ==
    /\ ~zkArgs.chosen
    /\ zkArgs' = a
    /\ UNCHANGED <<zkOut, zkAt, zkClock>>
    /\ UNCHANGED offZk

\* time passes
ZkTick ==
    /\ zkClock < MaxClock
    /\ zkClock' = zkClock + 1
    /\ UNCHANGED <<zkArgs, zkOut, zkAt>>
    /\ UNCHANGED offZk

\* one of the two calls runs
ZkCall(c) ==
    /\ zkArgs.chosen
    /\ ~zkOut[c].done
    /\ zkOut' = [zkOut EXCEPT ![c] = GenerateZKInput(zkArgs)]
    /\ zkAt' = [zkAt EXCEPT ![c] = zkClock]
    /\ UNCHANGED <<zkArgs, zkClock>>
    /\ UNCHANGED offZk

\* ------------------------------------------------- generateZKInput, two inputs
\* the arguments of a second call: those of the first with any of randomness,
\* epoch, keyStr, salt and the JWT's sub and aud replaced
SeedVariants(a) ==
    {[a EXCEPT !.randomness = r, !.epoch = e, !.keyStr = k, !.salt = s,
               !.jwt.sub = sb, !.jwt.aud = ad] :
        r \in Vals, e \in Vals, k \in Vals, s \in Vals, sb \in Vals, ad \in Vals}

\* the caller fixes the arguments of the two calls
SeedChoose ==
    /\ \A c \in ZkCalls : ~seedArgs[c].chosen
    /\ \E a \in ZkArgSet : \E b \in SeedVariants(a) :
           seedArgs' = [c \in ZkCalls |-> IF c = 1 THEN a ELSE b]
    /\ UNCHANGED seedOut
    /\ UNCHANGED offSeed

\* one of the two calls runs
SeedCall(c) ==
    /\ seedArgs[c].chosen
    /\ ~seedOut[c].done
    /\ seedOut' = [seedOut EXCEPT ![c] = GenerateZKInput(seedArgs[c])]
    /\ UNCHANGED seedArgs
    /\ UNCHANGED offSeed

\* ------------------------------------------------------------- poseidonHash
\* the argument lists: n copies of one value (Array(n).fill(v)), or n
\* consecutive values
PoseidonInputs ==
    {[i \in 1..n |-> IF ramp THEN i + v ELSE v] :
        n \in 0..MaxInputs, v \in Vals, ramp \in BOOLEAN}

\* poseidon-lite's poseidonN applied to its N inputs
HashFunction(inputs) == <<"poseidon", Len(inputs), inputs>>

\* a table of hash functions with an entry for no inputs
HashFunctionDefinedFromZero(n) == n \in 0..16

\* poseidonHashFunctions[n - 1] is defined: the array holds poseidon1..poseidon16
HashFunctionDefined(n) == n \in 1..16

\* a split that fills the first half
MidPointFull(n) == 16

\* Math.floor(inputs.length / 2)
MidPoint(n) == n \div 2

\* Array.prototype.slice(start, end) for 0 <= start: the entries from index
\* start up to and excluding index end, as far as the list goes
Slice(q, start, end) == SubSeq(q, start + 1, IF end > Len(q) THEN Len(q) ELSE end)

\* the engine's error for a call nested deeper than its stack allows
StackOverflow == [done |-> TRUE, threw |-> TRUE, perms |-> 0,
                  error |-> <<"RangeError: Maximum call stack size exceeded">>]

\* poseidonHash(inputs) running at the given call depth: its return value or
\* the error it throws, with the number of hash functions applied on the way
RECURSIVE PoseidonHashAt(_, _)
PoseidonHashAt(inputs, depth) ==
    IF depth > StackLimit THEN StackOverflow
    ELSE IF HashFunctionDefined(Len(inputs))
    THEN [done |-> TRUE, threw |-> FALSE, perms |-> 1, value |-> HashFunction(inputs)]
    ELSE IF Len(inputs) <= 32
    THEN LET midPoint == MidPoint(Len(inputs))
             hash1 == PoseidonHashAt(Slice(inputs, 0, midPoint), depth + 1)
             hash2 == PoseidonHashAt(Slice(inputs, midPoint, Len(inputs)), depth + 1)
             last == PoseidonHashAt(<<hash1.value, hash2.value>>, depth + 1)
         IN IF hash1.threw THEN hash1
            ELSE IF hash2.threw THEN [hash2 EXCEPT !.perms = @ + hash1.perms]
            ELSE [last EXCEPT !.perms = @ + hash1.perms + hash2.perms]
    ELSE [done |-> TRUE, threw |-> TRUE, perms |-> 0,
          error |-> <<"Yet to implement: Unable to hash a vector of length", Len(inputs)>>]

\* poseidonHash called from the top of the stack
PoseidonHash(inputs) == PoseidonHashAt(inputs, 1)

\* the caller fixes the argument
PoseidonChoose ==
    /\ ~phInputs.chosen
    /\ \E inputs \in PoseidonInputs : phInputs' = [chosen |-> TRUE, inputs |-> inputs]
    /\ UNCHANGED phOut
    /\ UNCHANGED offHash

\* the call runs
PoseidonCall ==
    /\ phInputs.chosen
    /\ ~phOut.done
    /\ phOut' = PoseidonHash(phInputs.inputs)
    /\ UNCHANGED phInputs
    /\ UNCHANGED offHash

\* ------------------------------------------------------------- convertBase
\* digit lists of up to MaxDigits digits, and digit widths of up to MaxBits bits
Digits == 0..(Pow2(MaxBits) - 1)

DigitLists == UNION {[1..n -> Digits] : n \in 0..MaxDigits}

Bases == 1..MaxBits

\* BigInt(v).toString(2): the bits of v from the most significant one, "0" for 0
RECURSIVE ToString2(_)
ToString2(v) == IF v < 2 THEN <<v>> ELSE Append(ToString2(v \div 2), v % 2)

\* a padStart that adds nothing
PadStartNone(bits, width) == bits

\* String.prototype.padStart(width, '0')
PadStart(bits, width) ==
    IF Len(bits) >= width THEN bits ELSE [i \in 1..(width - Len(bits)) |-> 0] \o bits

\* Array.prototype.join(''): the strings of a list one after the other
RECURSIVE Join(_)
Join(strs) == IF strs = <<>> THEN <<>> ELSE Head(strs) \o Join(Tail(strs))

\* a convertArrayToBinary that keeps the order of the list
ConvertArrayToBinaryInOrder(valuesLE, inBase) ==
    Join([i \in 1..Len(valuesLE) |-> PadStart(ToString2(valuesLE[i]), inBase)])

\* convertArrayToBinary: each value of the reversed list as inBase bits at least
ConvertArrayToBinary(valuesLE, inBase) ==
    LET reversed == Reverse(valuesLE)
        vals == [i \in 1..Len(reversed) |-> PadStart(ToString2(reversed[i]), inBase)]
    IN Join(vals)

\* convertAsciiToBigIntLE: reduce without an initial value over a non-empty
\* list, values[0] + sum of values[i] * 2^(base * i)
RECURSIVE ConvertAsciiToBigIntLE(_, _)
ConvertAsciiToBigIntLE(values, base) ==
    IF Len(values) = 1 THEN values[1]
    ELSE ConvertAsciiToBigIntLE(SubSeq(values, 1, Len(values) - 1), base)
             + values[Len(values)] * Pow2(base * (Len(values) - 1))

\* a convertBase that returns convertedValueLE as it was built
ConvertBaseUnreversed(inArrayLE, inBase, outBase) ==
    LET binaryValueLE == Reverse(ConvertArrayToBinary(inArrayLE, inBase))
        count == (Len(binaryValueLE) + outBase - 1) \div outBase
        chunks == [k \in 1..count |-> Slice(binaryValueLE, (k - 1) * outBase, k * outBase)]
    IN [k \in 1..count |-> ConvertAsciiToBigIntLE(chunks[k], 1)]

\* convertBase: the bit string of the input, cut from its last bit into chunks
\* of outBase bits, each chunk as a number; the list of these is returned
\* reversed
ConvertBase(inArrayLE, inBase, outBase) ==
    LET binaryValue == ConvertArrayToBinary(inArrayLE, inBase)
        binaryValueLE == Reverse(binaryValue)
        count == (Len(binaryValueLE) + outBase - 1) \div outBase
        chunks == [k \in 1..count |-> Slice(binaryValueLE, (k - 1) * outBase, k * outBase)]
        convertedValueLE == [k \in 1..count |-> ConvertAsciiToBigIntLE(chunks[k], 1)]
    IN Reverse(convertedValueLE)

\* the caller fixes the arguments
ConvChoose ==
    /\ ~cvArgs.chosen
    /\ \E x \in DigitLists : \E a \in Bases : \E b \in Bases :
           cvArgs' = [chosen |-> TRUE, inArrayLE |-> x, inBase |-> a, outBase |-> b]
    /\ UNCHANGED <<cvOut, cvBack>>
    /\ UNCHANGED offConv

\* the call runs
ConvCall ==
    /\ cvArgs.chosen
    /\ ~cvOut.done
    /\ cvOut' = [done |-> TRUE,
                 value |-> ConvertBase(cvArgs.inArrayLE, cvArgs.inBase, cvArgs.outBase)]
    /\ UNCHANGED <<cvArgs, cvBack>>
    /\ UNCHANGED offConv

\* the result is converted back with the bases exchanged: as it is, and
\* reversed before and after
ConvBack ==
    /\ cvOut.done
    /\ ~cvBack.done
    /\ cvBack' = [done |-> TRUE,
                  direct |-> ConvertBase(cvOut.value, cvArgs.outBase, cvArgs.inBase),
                  reversed |-> Reverse(ConvertBase(Reverse(cvOut.value), cvArgs.outBase,
                                                   cvArgs.inBase))]
    /\ UNCHANGED <<cvArgs, cvOut>>
    /\ UNCHANGED offConv

\* ------------------------------------------------------- getUnsignedPaddedJWT
\* a JWT is the character codes of its base64 header and payload; the header's
\* characters are 'e', the payload's are one digit character
JwtSet ==
    {[chosen |-> TRUE, header |-> [i \in 1..h |-> 101], payload |-> [i \in 1..p |-> 48 + v]] :
        h \in 0..MaxHeaderLen, p \in 0..MaxPayloadLen, v \in Vals}

\* the error of Array(count) for a negative count
InvalidArrayLength == [done |-> TRUE, threw |-> TRUE, error |-> "RangeError: Invalid array length"]

\* Array(count).fill(0): count zeros
Zeros(count) == [i \in 1..count |-> 0]

\* chunkString(str, l) for a string whose length is a multiple of l
ChunkString(str, l) == [k \in 1..(Len(str) \div l) |-> SubSeq(str, (k - 1) * l + 1, k * l)]

\* BigInt('0b' + bits): the number of a bit string
RECURSIVE BitsValue(_)
BitsValue(bits) ==
    IF bits = <<>> THEN 0
    ELSE 2 * BitsValue(SubSeq(bits, 1, Len(bits) - 1)) + bits[Len(bits)]

\* the number of zero bits between the 1 bit and the length:
\* 512 - 64 - (jwtBinary.length % 512)
ZeroFill(len1) == 512 - 64 - (len1 % 512)

\* getUnsignedPaddedJWT({ jwt, length, paddingValue: 0 })
GetUnsignedPaddedJWT(jwt, length) ==
    LET s == jwt.header \o <<46>> \o jwt.payload
        bits == Join([i \in 1..Len(s) |-> PadStart(ToString2(s[i]), 8)])
        len == Len(bits)
        withOne == Append(bits, 1)
        fill == ZeroFill(Len(withOne))
        jwtBinary == withOne \o Zeros(fill) \o PadStart(ToString2(len), 64)
        numSha2Blocks == Len(jwtBinary) \div 512
        chunks == ChunkString(jwtBinary, 8)
        unsignedPaddedJWT == [k \in 1..Len(chunks) |-> BitsValue(chunks[k])]
    IN IF fill < 0 \/ length - Len(unsignedPaddedJWT) < 0
       THEN InvalidArrayLength
       ELSE [done |-> TRUE, threw |-> FALSE,
             paddedUnsignedJwt |-> unsignedPaddedJWT \o Zeros(length - Len(unsignedPaddedJWT)),
             numSha2Blocks |-> numSha2Blocks,
             payloadLen |-> Len(jwt.payload),
             payloadStartIndex |-> Len(jwt.header) + 1]

\* the caller fixes the JWT
PadChoose ==
    /\ ~pdArgs.chosen
    /\ \E jwt \in JwtSet : pdArgs' = jwt
    /\ UNCHANGED pdOut
    /\ UNCHANGED offPad

\* the call runs
PadCall ==
    /\ pdArgs.chosen
    /\ ~pdOut.done
    /\ pdOut' = GetUnsignedPaddedJWT(pdArgs, PADDED_UNSIGNED_JWT_LENGTH)
    /\ UNCHANGED pdArgs
    /\ UNCHANGED offPad

\* ------------------------------------------------------------ getExtKCFields
\* Texts are lists of character codes. A payload is a JSON object of string
\* claims: the four claims that generateZKInput reads and one that it does not.
ClaimNames == {"iss", "sub", "aud", "nonce", "jti"}

NameText == [iss |-> <<105, 115, 115>>, sub |-> <<115, 117, 98>>, aud |-> <<97, 117, 100>>,
             nonce |-> <<110, 111, 110, 99, 101>>, jti |-> <<106, 116, 105>>]

\* the orders in which a payload can hold some of the claims, each once
ClaimOrders ==
    {q \in UNION {[1..n -> ClaimNames] : n \in 0..MaxClaims} :
        \A i, k \in DOMAIN q : i # k => q[i] # q[k]}

\* the JWTs: a header, the claims in their order, the digit all values are
\* made of, and the claim (if any) whose value is long
JwtClaimSet ==
    {[chosen |-> TRUE, header |-> [i \in 1..MaxHeaderLen |-> 101], claims |-> q,
      digit |-> 48 + v, long |-> l] :
        q \in ClaimOrders, v \in Vals, l \in ClaimNames \cup {"none"}}

\* the value of a claim of the JWT
ClaimValue(jwt, name) ==
    [i \in 1..(IF jwt.long = name THEN MaxValueLen ELSE 1) |-> jwt.digit]

\* "name":"value"
ClaimText(jwt, name) ==
    <<34>> \o NameText[name] \o <<34, 58, 34>> \o ClaimValue(jwt, name) \o <<34>>

\* the claims from position i on, separated by commas
RECURSIVE ClaimsFrom(_, _)
ClaimsFrom(jwt, i) ==
    IF i > Len(jwt.claims) THEN <<>>
    ELSE ClaimText(jwt, jwt.claims[i])
             \o (IF i < Len(jwt.claims) THEN <<44>> ELSE <<>>) \o ClaimsFrom(jwt, i + 1)

\* payloadStr = decodeBase64(payloadBase64): the JSON text of the payload
PayloadStr(jwt) == <<123>> \o ClaimsFrom(jwt, 1) \o <<125>>

\* the payload object has the claim (payload.sub is not undefined)
HasClaim(jwt, name) == \E i \in DOMAIN jwt.claims : jwt.claims[i] = name

\* String.prototype.indexOf: the least 0-based position at which needle
\* occurs in str, -1 when there is none
IndexOf(str, needle) ==
    LET at == {i \in 0..(Len(str) - Len(needle)) :
                  SubSeq(str, i + 1, i + Len(needle)) = needle}
    IN IF at = {} THEN -1 ELSE CHOOSE i \in at : \A k \in at : i <= k

\* a bound of substring: NaN and negatives count as 0, the length is the most
Clamp(i, len) == IF i < 0 THEN 0 ELSE IF i > len THEN len ELSE i

\* String.prototype.substring(start, end), 0-based, end excluded, the bounds
\* exchanged when start is the greater
Substring(str, start, end) ==
    LET a == Clamp(start, Len(str))
        b == Clamp(end, Len(str))
    IN IF a <= b THEN SubSeq(str, a + 1, b) ELSE SubSeq(str, b + 1, a)

\* getKCString: from two characters before the name to the first comma after
\* it, the comma included
GetKCString(payload, name) ==
    LET namePos == IndexOf(payload, name)
        start == namePos - 2
        end == IndexOf(Substring(payload, namePos + 1, Len(payload)), <<44>>)
    IN Substring(payload, start, namePos + end + 2)

\* getBase64String with the end index computed as the start index is
GetBase64StringEndAsStart(hayStack, needle, jwt) ==
    LET strIndex == IndexOf(hayStack, needle)
        strIndexB64 == (strIndex \div 3) * 4 + (strIndex % 3)
        endIndex == strIndex + Len(needle)
        endIndexB64 == (endIndex \div 3) * 4 + (endIndex % 3)
    IN [startB64 |-> strIndexB64 + Len(jwt.header) + 1,
        endB64 |-> endIndexB64 + Len(jwt.header) + 1]

\* getBase64String: where the base64 of the needle starts and ends in the JWT
GetBase64String(hayStack, needle, jwt) ==
    LET strIndex == IndexOf(hayStack, needle)
        strIndexB64 == (strIndex \div 3) * 4 + (strIndex % 3)
        endIndex == strIndex + Len(needle)
        endIndexB64 == (endIndex \div 3) * 4
                           + (IF endIndex % 3 = 0 THEN 0 ELSE 1 + (endIndex % 3))
    IN [startB64 |-> strIndexB64 + Len(jwt.header) + 1,
        endB64 |-> endIndexB64 + Len(jwt.header) + 1]

\* a padArray that pads with the character '0'
PadArrayWithDigit(arr, len) == arr \o [i \in 1..(len - Len(arr)) |-> 48]

\* padArray({ arr, len, paddingValue: 0 }) for len >= arr.length
PadArray(arr, len) == arr \o Zeros(len - Len(arr))

\* getExtKCFields({ jwt, len, name, payload })
GetExtKCFields(jwt, payload, name, len) ==
    LET s == GetKCString(payload, NameText[name])
        finalVal == Substring(s, 1, Len(s))
        b64 == GetBase64String(payload, finalVal, jwt)
        asciiArray == finalVal
        colonIndex == IndexOf(finalVal, <<58>>)
        valueIndex == colonIndex + 1
        valueLength == IndexOf(Substring(finalVal, valueIndex + 1, Len(finalVal)), <<34>>) + 2
    IN IF len - Len(asciiArray) < 0
       THEN InvalidArrayLength
       ELSE [done |-> TRUE, threw |-> FALSE,
             asciiArrayLength |-> Len(asciiArray),
             b64Index |-> b64.startB64,
             asciiVal |-> PadArray(asciiArray, len),
             b64Size |-> b64.endB64 - b64.startB64,
             colonIndex |-> colonIndex,
             nameLength |-> Len(NameText[name]) + 2,
             valueIndex |-> valueIndex,
             valueLength |-> valueLength,
             value |-> finalVal]

\* the error of reading .length of undefined
UndefinedLength ==
    [done |-> TRUE, threw |-> TRUE,
     error |-> "TypeError: Cannot read properties of undefined (reading 'length')"]

\* generateZKInput, steps 5 to 11: the five claim extractions in their order,
\* then the field hashes of the issuer's base64, of payload.sub and of
\* payload.aud
ExtractClaims(jwt) ==
    LET payloadStr == PayloadStr(jwt)
        kc == GetExtKCFields(jwt, payloadStr, "sub", 126)
        nonce == GetExtKCFields(jwt, payloadStr, "nonce", 44)
        ev == GetExtKCFields(jwt, payloadStr, "nonce", 53)
        aud == GetExtKCFields(jwt, payloadStr, "aud", 160)
        iss == GetExtKCFields(jwt, payloadStr, "iss", 160)
    IN IF kc.threw THEN kc
       ELSE IF nonce.threw THEN nonce
       ELSE IF ev.threw THEN ev
       ELSE IF aud.threw THEN aud
       ELSE IF iss.threw THEN iss
       ELSE IF ~HasClaim(jwt, "sub") \/ ~HasClaim(jwt, "aud") THEN UndefinedLength
       ELSE [done |-> TRUE, threw |-> FALSE,
             kc |-> kc, nonce |-> nonce, ev |-> ev, aud |-> aud,
             iss_index_b64 |-> iss.b64Index, iss_length_b64 |-> iss.b64Size,
             issField |-> HashStringToField(
                              <<"jwt.substring", iss.b64Index, iss.b64Index + iss.b64Size>>, 224),
             kcValue |-> HashStringToField(ClaimValue(jwt, "sub"), 115),
             audValue |-> HashStringToField(ClaimValue(jwt, "aud"), 145)]

\* the caller fixes the JWT
ExtChoose ==
    /\ ~kcArgs.chosen
    /\ \E jwt \in JwtClaimSet : kcArgs' = jwt
    /\ UNCHANGED kcOut
    /\ UNCHANGED offExt

\* the extraction runs
ExtCall ==
    /\ kcArgs.chosen
    /\ ~kcOut.done
    /\ kcOut' = ExtractClaims(kcArgs)
    /\ UNCHANGED kcArgs
    /\ UNCHANGED offExt

\* ------------------------------------------------- modulus and signature
\* generateZKInput's steps 2, 3 and the hash of the modulus, on numbers. The
\* source cuts into limbs of 64 bits and field elements of 248 bits; here the
\* widths are LimbBits and FieldBits and the numbers have up to three limbs.
\* getLimbs({ base, num })
GetLimbsOf(num, base) ==
    LET binary == ToString2(num)
        padLength == ((Len(binary) + base - 1) \div base) * base
        parts == ChunkString(PadStart(binary, padLength), base)
        rem2 == [k \in 1..Len(parts) |-> BitsValue(parts[k])]
    IN Reverse(rem2)

\* hashArrayToField({ valueBE, inBase, outBase }): a reversed copy of valueBE
\* is convertBase's inArrayLE
HashArrayToField(valueBE, inBase, outBase) == ConvertBase(Reverse(valueBE), inBase, outBase)

\* the statements of generateZKInput that touch modulusZK and signatureZK, in
\* their order; Array.prototype.reverse reverses modulusZK in place and
\* returns it
LimbResult(a) ==
    LET modulusZK == GetLimbsOf(a.modulusBN, LimbBits)
        signatureZK == GetLimbsOf(a.signatureBN, LimbBits)
        valueBE == Reverse(modulusZK)
        modulusF == PoseidonOf(HashArrayToField(valueBE, LimbBits, FieldBits))
    IN [done |-> TRUE, modulus_F |-> modulusF,
        inputs |-> [modulus |-> ModulusSignal(valueBE), signature |-> signatureZK]]

\* the caller fixes the numbers of the modulus and of the signature
LimbChoose ==
    /\ ~lbArgs.chosen
    /\ \E n \in 1..MaxModulus : \E sg \in 0..MaxModulus :
           lbArgs' = [chosen |-> TRUE, modulusBN |-> n, signatureBN |-> sg]
    /\ UNCHANGED lbOut
    /\ UNCHANGED offLimb

\* the call runs
LimbCall ==
    /\ lbArgs.chosen
    /\ ~lbOut.done
    /\ lbOut' = LimbResult(lbArgs)
    /\ UNCHANGED lbArgs
    /\ UNCHANGED offLimb

\* ------------------------------------------------------------- specification
Init ==
    /\ store = [j \in Jobs |-> AbsentRow]
    /\ processingProofs = {}
    /\ connectedWorkers = <<>>
    /\ readyState = [w \in Sockets |-> "NEW"]
    /\ isAlive = [w \in Sockets |-> FALSE]
    /\ ticks = [t \in Ticks |-> IdleTick]
    /\ timers = [t \in Ticks |-> NoTimer]
    /\ outbox = <<>>
    /\ fallbacks = [j \in Jobs |-> 0]
    /\ sentCount = [j \in Jobs |-> 0]
    /\ timedOut = [j \in Jobs |-> FALSE]
    /\ connectionTimer = [w \in Sockets |-> "none"]
    /\ cState = [c \in Clients |-> "CONNECTING"]
    /\ reconnectAttempts = [c \in Clients |-> 0]
    /\ pingTimer = [c \in Clients |-> FALSE]
    /\ pongTimer = [c \in Clients |-> "none"]
    /\ reconnectTimer = [c \in Clients |-> NoReconnect]
    /\ isPongReceived = [c \in Clients |-> FALSE]
    /\ closePending = [c \in Clients |-> FALSE]
    /\ discarded = [w \in Sockets |-> FALSE]
    /\ wTasks = [t \in Tasks |-> NoTask]
    /\ cacheFiles = [sd \in Seeds |-> NoFiles]
    /\ wReplies = {}
    /\ proofTable = <<>>
    /\ callbacks = [k \in Callbacks |-> NoCallback]
    /\ zkArgs = NoArgs
    /\ zkOut = [c \in ZkCalls |-> NoOut]
    /\ zkAt = [c \in ZkCalls |-> 0]
    /\ zkClock = 0
    /\ seedArgs = [c \in ZkCalls |-> NoArgs]
    /\ seedOut = [c \in ZkCalls |-> NoOut]
    /\ phInputs = NoArgs
    /\ phOut = NoOut
    /\ cvArgs = NoArgs
    /\ cvOut = NoOut
    /\ cvBack = NoOut
    /\ pdArgs = NoArgs
    /\ pdOut = NoOut
    /\ kcArgs = NoArgs
    /\ kcOut = NoOut
    /\ gwWorkers = <<>>
    /\ gwState = [w \in GwSockets |-> "NEW"]
    /\ gwAlive = [w \in GwSockets |-> FALSE]
    /\ gwPick = NoOut
    /\ lbArgs = NoArgs
    /\ lbOut = NoOut
    /\ closeCalled = [c \in Clients |-> FALSE]

\* the steps in which every store operation succeeds
NextNoFault ==
    \/ \E j \in Jobs : CreateJob(j)
    \/ \E j \in Jobs : CreateFailedJob(j)
    \/ \E w \in Sockets : WorkerConnect(w)
    \/ \E w \in Sockets : SocketClose(w)
    \/ \E w \in Sockets : HandleDisconnect(w)
    \/ \E w \in Sockets : ServerPing(w)
    \/ \E w \in Sockets : ConnectionTimerFire(w)
    \/ \E t \in Ticks : TickFindFirst(t)
    \/ \E t \in Ticks : TickCheck(t)
    \/ \E t \in Ticks : TickUpdate(t)
    \/ \E t \in Ticks : TickSend(t)
    \/ \E t \in Ticks : TimerRead(t)
    \/ \E t \in Ticks : TimerUpdate(t)
    \/ \E t \in Ticks : TimerFinally(t)
    \/ \E i \in DOMAIN outbox : WorkerNoReply(i)
    \/ \E i \in DOMAIN outbox : HandleProofResult(i)

\* the steps in which a store operation throws, and the catch branch that follows
NextFault ==
    \/ \E t \in Ticks : TickUpdateFail(t)
    \/ \E t \in Ticks : TimerReadFail(t)
    \/ \E t \in Ticks : TimerUpdateFail(t)
    \/ \E i \in DOMAIN outbox : HandleProofResultFail(i)
    \/ \E j \in Jobs : HandleFallback(j)
    \/ \E j \in Jobs : HandleFallbackFail(j)

Next == NextNoFault \/ NextFault

Spec == Init /\ [][Next]_vars

\* what the event loop, the timers and the store do for slot t once its
\* invocation has claimed a job: none of these steps waits for anything but
\* the store and the clock
SlotStep(t) ==
    \/ TickCheck(t)
    \/ TickUpdate(t)
    \/ TickSend(t)
    \/ TimerRead(t)
    \/ TimerUpdate(t)
    \/ TimerFinally(t)

\* timers fire, handlers resume and every store operation succeeds
LiveSpec == Init /\ [][NextNoFault]_vars /\ \A t \in Ticks : WF_vars(SlotStep(t))

\* the steps of the worker processes' WebSocketClient objects
ClientNext ==
    \/ \E c \in Clients : ClientOpen(c)
    \/ \E c \in Clients : ClientError(c)
    \/ \E c \in Clients : ClientPeerClose(c)
    \/ \E c \in Clients : ClientHandleClose(c)
    \/ \E c \in Clients : ClientPingTick(c)
    \/ \E c \in Clients : ClientPong(c)
    \/ \E c \in Clients : ClientPongTimeout(c)
    \/ \E c \in Clients : ClientReconnectFire(c)

ClientSpec == Init /\ [][ClientNext]_vars

\* the WebSocketClient objects with owners that may call close()
ClientCloseSpec == Init /\ [][ClientNext \/ \E c \in Clients : ClientClose(c)]_vars

\* the steps of a worker process's message handler
WorkerNext ==
    \/ \E t \in Tasks : \E sd \in Seeds : WorkerReceive(t, sd)
    \/ \E t \in Tasks : WorkerWriteInput(t)
    \/ \E t \in Tasks : WorkerWitness(t)
    \/ \E t \in Tasks : WorkerProve(t)
    \/ \E t \in Tasks : WorkerReadProof(t)
    \/ \E t \in Tasks : WorkerReadPublic(t)
    \/ \E t \in Tasks : WorkerStepFail(t)
    \/ \E t \in Tasks : WorkerSend(t)

WorkerSpec == Init /\ [][WorkerNext]_vars

\* the steps of the auth server's OAuth callbacks
AuthNext ==
    \/ \E k \in Callbacks : \E n \in Nonces : CallbackBegin(k, n)
    \/ \E k \in Callbacks : CallbackTryCreate(k)
    \/ \E k \in Callbacks : CallbackTryThrow(k)
    \/ \E k \in Callbacks : CallbackCatchCreate(k)
    \/ \E k \in Callbacks : CallbackCatchThrow(k)

AuthSpec == Init /\ [][AuthNext]_vars

\* two calls of generateZKInput at any two times
ZkNext ==
    \/ \E a \in ZkArgSet : ZkChoose(a)
    \/ ZkTick
    \/ \E c \in ZkCalls : ZkCall(c)

ZkSpec == Init /\ [][ZkNext]_vars

\* two calls of generateZKInput with arguments of their own
SeedNext ==
    \/ SeedChoose
    \/ \E c \in ZkCalls : SeedCall(c)

SeedSpec == Init /\ [][SeedNext]_vars

\* a call of poseidonHash
PoseidonNext ==
    \/ PoseidonChoose
    \/ PoseidonCall

PoseidonSpec == Init /\ [][PoseidonNext]_vars

\* a call of convertBase and the conversion back
ConvNext ==
    \/ ConvChoose
    \/ ConvCall
    \/ ConvBack

ConvSpec == Init /\ [][ConvNext]_vars

\* a call of getUnsignedPaddedJWT
PadNext ==
    \/ PadChoose
    \/ PadCall

PadSpec == Init /\ [][PadNext]_vars

\* the claim extraction of a generateZKInput call
ExtNext ==
    \/ ExtChoose
    \/ ExtCall

ExtSpec == Init /\ [][ExtNext]_vars

\* results that no task message asked for arriving at the gateway
NextUnsolicited == \E w \in Sockets : \E j \in Jobs : HandleUnsolicitedResult(w, j)

\* the pipeline with every store operation succeeding and with workers that
\* also send results nobody asked them for
UnsolicitedSpec == Init /\ [][NextNoFault \/ NextUnsolicited]_vars

\* the modulus and signature signals of a generateZKInput call
LimbNext ==
    \/ LimbChoose
    \/ LimbCall

LimbSpec == Init /\ [][LimbNext]_vars

\* the gateway with several worker connections
GatewayNext ==
    \/ \E w \in GwSockets : GwConnect(w)
    \/ \E w \in GwSockets : GwSocketClose(w)
    \/ \E w \in GwSockets : GwDisconnect(w)
    \/ GwGetAvailableWorker

GatewaySpec == Init /\ [][GatewayNext]_vars

\* messages other than results arriving at the gateway
NextMessages == \E w \in Sockets : \E m \in OtherMessages : HandleOtherMessage(w, m)

\* the pipeline with every store operation succeeding and with messages of
\* every kind arriving on the worker sockets
MessageSpec == Init /\ [][NextNoFault \/ NextMessages]_vars

\* ------------------------------------------------------------- properties
Status(j) == store[j].status

Terminal(st) == st \in {"generated", "failed"}

Older(k, j) == Exists(store, k) /\ Exists(store, j) /\ store[k].createdAt < store[j].createdAt

\* slot t resumes after findFirst in this step
CheckStep(t) == ticks[t].pc = "found" /\ ticks'[t] # ticks[t]

\* slot t's update to generating takes effect in this step
UpdateStep(t) == ticks[t].pc = "update" /\ ticks'[t].pc = "updated"

\* slot t resumes after the update in this step
SendStep(t) == ticks[t].pc = "updated" /\ ticks'[t].pc = "done"

\* slot t's timeout closure finishes its store update (or its failure) in this step
TimerUpdateStep(t) == timers[t].pc = "read" /\ timers'[t].pc = "finally"

\* a worker's reply for job j is handled in this step
ReplyStep(j) ==
    \E i \in DOMAIN outbox :
        /\ outbox[i].proofId = j
        /\ readyState[outbox[i].to] = "OPEN"
        /\ outbox' = RemoveAt(outbox, i)

AllowedTransition(a, b) ==
    \/ a = "waiting" /\ b = "generating"
    \/ a = "generating" /\ b = "generated"
    \/ a = "generating" /\ b = "failed"

\* C1: every change of an existing job's status is waiting->generating,
\* generating->generated or generating->failed.
C1_StatusTransitions ==
    [][\A j \in Jobs :
          (Exists(store, j) /\ Status(j)' # Status(j))
              => AllowedTransition(Status(j), Status(j)')]_vars

\* C2: once the timeout closure has moved a job to failed, handling a worker
\* reply for that job leaves the job's row (status, proof, public) as it was.
C2_LateReplyIgnored ==
    [][\A j \in Jobs :
          (timedOut[j] /\ Status(j) = "failed" /\ ReplyStep(j))
              => store'[j] = store[j]]_vars

\* C3: the first of {worker reply, timeout} to run its update wins: a timeout
\* closure that re-read the job as generating does not change the job when a
\* worker reply has moved it to generated before the closure's update lands.
C3_ExactlyOnceTerminal ==
    [][\A t \in Ticks :
          (TimerUpdateStep(t) /\ Status(ticks[t].proof.id) = "generated")
              => store'[ticks[t].proof.id] = store[ticks[t].proof.id]]_vars

\* C4: each job is sent to a worker at most once.
C4_SingleAssignment == \A j \in Jobs : sentCount[j] <= 1

\* a slot that holds a job between its store read and its send holds a job
\* than which no older job is waiting
C5_HoldsOldest ==
    \A t \in Ticks :
        (ticks[t].pc \in {"found", "update", "updated"} /\ ticks[t].proof.id # NoJob)
            => \A k \in Jobs : Older(k, ticks[t].proof.id) => Status(k) # "waiting"

\* C5: the job a tick holds from its store read on is the waiting job with
\* the smallest created_at at the time of the read, so no older job is
\* waiting; and no step moves a job to generating while a job with an older
\* created_at is waiting.
C5_FifoSelection ==
    /\ []C5_HoldsOldest
    /\ [][\A j \in Jobs :
             (Status(j) # "generating" /\ Status(j)' = "generating")
                 => \A k \in Jobs : Older(k, j) => Status(k) # "waiting"]_vars

\* C5 witness: a slot has moved the older job to generating while a younger
\* job, with the smaller id, is still waiting.
C5_Witness ==
    \E t \in Ticks : \E k \in Jobs :
        /\ ticks[t].pc = "updated"
        /\ Status(ticks[t].proof.id) = "generating"
        /\ Status(k) = "waiting"
        /\ Older(ticks[t].proof.id, k)
        /\ k < ticks[t].proof.id

\* C6: a tick that resumes with a waiting job and finds no available worker
\* ends without changing the store, the processing set, the outstanding
\* messages or any timer; the job is still waiting, so findFirst can return it
\* to a later tick.
C6_NoWorkerNoMutation ==
    [][\A t \in Ticks :
          (CheckStep(t) /\ ticks[t].proof.id # NoJob /\ GetAvailableWorker = NoWorker)
              => /\ UNCHANGED <<store, processingProofs, outbox, timers, sentCount>>
                 /\ ticks'[t] = IdleTick
                 /\ (Status(ticks[t].proof.id) = "waiting"
                        => ticks[t].proof.id \in WaitingJobs(store'))]_vars

\* C6 witness: a slot is about to resume with a waiting, unclaimed job while
\* every registered socket is closed, so no worker is available.
C6_Witness ==
    \E t \in Ticks :
        /\ ticks[t].pc = "found"
        /\ ticks[t].proof.id # NoJob
        /\ Status(ticks[t].proof.id) = "waiting"
        /\ ticks[t].proof.id \notin processingProofs
        /\ connectedWorkers # <<>>
        /\ GetAvailableWorker = NoWorker

ExpectedMessage(w, j) ==
    [to |-> w, task |-> "generateProof", proofId |-> j,
     payload |-> [inputs |-> store[j].inputs, fields |-> store[j].fields]]

C8_GeneratingEnds ==
    \A j \in Jobs : (Status(j) = "generating") ~> Terminal(Status(j))

\* C8 witness: a job whose task message was never written to a worker (the
\* socket closed before the send) has been failed by its timeout closure.
C8_Witness ==
    \E j \in Jobs : sentCount[j] = 0 /\ timedOut[j] /\ Status(j) = "failed"

\* C9: every generating job has its id in the processing set.
C9_GeneratingCovered ==
    \A j \in Jobs : Status(j) = "generating" => j \in processingProofs

\* C10: proof and public are non-null only in status generated.
C10_ProofOnlyWhenGenerated ==
    \A j \in Jobs :
        (store[j].proof # NullJson \/ store[j].public # NullJson)
            => Status(j) = "generated"

\* job j has been dispatched and its timeout timer has not fired yet
Pending(j) == \E t \in Ticks : ticks[t].proof.id = j /\ timers[t].pc = "armed"

\* C11: a worker that holds a task it has not answered and whose timeout has
\* not fired is not sent a second task: no two such tasks, for different jobs,
\* are outstanding at one worker.
C11_IdleWorkerOnly ==
    \A i, k \in DOMAIN outbox :
        (/\ i # k
         /\ outbox[i].to = outbox[k].to
         /\ outbox[i].proofId # outbox[k].proofId)
            => ~(Pending(outbox[i].proofId) /\ Pending(outbox[k].proofId))

\* socket w's liveness timer fires in this step
ConnectionTimerStep(w) ==
    /\ connectionTimer[w] = "armed"
    /\ connectionTimer'[w] = "none"
    /\ connectedWorkers' = connectedWorkers

\* C12: when the liveness timer of an open connection fires (no ping has
\* arrived for CONNECTION_TIMEOUT since the connect or the last ping), the
\* server force-closes the connection.
C12_SilentWorkerClosed ==
    [][\A w \in Sockets :
          (ConnectionTimerStep(w) /\ readyState[w] = "OPEN")
              => readyState'[w] = "CLOSED"]_vars

\* client c's pong timeout ends in this step without a pong being recorded
PongTimeoutStep(c) ==
    /\ pongTimer[c] = "armed"
    /\ pongTimer'[c] = "none"
    /\ isPongReceived'[c] = isPongReceived[c]
    /\ closePending[c] => closePending'[c]

\* client c records a pong in this step
PongStep(c) == ~isPongReceived[c] /\ isPongReceived'[c]

\* C13: a pong timeout that fires (no pong within PONG_TIMEOUT of the ping)
\* terminates the connection and leaves a reconnect scheduled; a pong clears
\* the timeout without touching the connection, and no timeout is armed once
\* its pong has been received, so with a pong for every ping the heartbeat
\* never terminates the connection.
C13_Heartbeat ==
    /\ [][\A c \in Clients :
             PongTimeoutStep(c) => (cState'[c] = "CLOSED" /\ reconnectTimer'[c].armed)]_vars
    /\ [][\A c \in Clients :
             PongStep(c) => /\ pongTimer'[c] = "none"
                            /\ cState'[c] = cState[c]
                            /\ reconnectTimer'[c] = reconnectTimer[c]]_vars
    /\ [](\A c \in Clients : pongTimer[c] = "armed" => ~isPongReceived[c])

\* C13 witness: a client whose ping went unanswered has been terminated by
\* its pong timeout (the ping interval is still set, 'close' is still owed)
\* and has a reconnect scheduled.
C13_Witness ==
    \E c \in Clients :
        /\ cState[c] = "CLOSED"
        /\ closePending[c]
        /\ pingTimer[c]
        /\ ~isPongReceived[c]
        /\ pongTimer[c] = "none"
        /\ reconnectTimer[c].armed

\* client c's reconnect timeout fires in this step
ReconnectFireStep(c) == reconnectTimer[c].armed /\ ~reconnectTimer'[c].armed

\* C14: the reconnect attempt that follows a disconnect starts a new
\* connection (from which the client can return to the open state).
C14_ReconnectStartsConnection ==
    [][\A c \in Clients : ReconnectFireStep(c) => cState'[c] = "CONNECTING"]_vars

\* C15: every reconnect timer is armed with the delay base * 2^n, n being the
\* attempt counter, and each reconnect attempt increments the counter (only a
\* successful open resets it).
C15_BackoffCounter ==
    /\ [](\A c \in Clients :
             reconnectTimer[c].armed
                 => reconnectTimer[c].delay = BackoffDelay(reconnectAttempts[c]))
    /\ [][\A c \in Clients :
             ReconnectFireStep(c)
                 => reconnectAttempts'[c] = reconnectAttempts[c] + 1]_vars

\* slot t resumes after the update and its worker's socket is no longer open
DroppedSendStep(t) == SendStep(t) /\ readyState[ticks[t].worker] # "OPEN"

\* C17: when a tick's send finds the chosen worker's channel closed, the job
\* is (still) generating after the step, the tick's timeout timer is armed and
\* the job's id is in the processing set.
C17_DispatchFailureLeavesGenerating ==
    [][\A t \in Ticks :
          DroppedSendStep(t)
              => /\ Status(ticks[t].proof.id)' = "generating"
                 /\ timers'[t] = ArmedTimer
                 /\ ticks[t].proof.id \in processingProofs']_vars

\* the message handler discards a message from socket w in this step
DiscardStep(w) == ~discarded[w] /\ discarded'[w]

\* C18: handling a message that is not JSON or whose task is not
\* "generateProof" changes no job row and leaves the connection open and in
\* the connected set; a result outstanding on a connection that has discarded
\* such a message can still be handled.
C18_BadMessageDiscarded ==
    /\ [][\A w \in Sockets :
             DiscardStep(w)
                 => UNCHANGED <<store, connectedWorkers, readyState, isAlive, outbox,
                                fallbacks, processingProofs>>]_vars
    /\ [](\A i \in DOMAIN outbox :
             (discarded[outbox[i].to] /\ readyState[outbox[i].to] = "OPEN")
                 => ENABLED HandleProofResult(i))

\* C18 witness: a connection that has discarded a message is still open and
\* registered and holds the outstanding task of a generating job.
C18_Witness ==
    \E w \in Sockets : \E i \in DOMAIN outbox :
        /\ discarded[w]
        /\ readyState[w] = "OPEN"
        /\ w \in Range(connectedWorkers)
        /\ outbox[i].to = w
        /\ Status(outbox[i].proofId) = "generating"

\* C16: a reply exists for a task exactly when its generateProof completed
\* (a task whose step failed has none), and every reply carries results
\* derived from the inputs of the task whose proofId it names.
C16_ReplyMatchesTask ==
    /\ \A t \in Tasks :
           (wTasks[t].pc = "done") <=> (\E r \in wReplies : r.proofId = t)
    /\ \A r \in wReplies : r.proof = r.proofId /\ r.public = r.proofId

RowsOf(n) == {i \in DOMAIN proofTable : proofTable[i].nonce = n}

\* C19: for each nonce the proof table holds at most one row, whatever
\* callbacks have run, repeated or failed.
C19_OneJobPerNonce == \A n \in Nonces : Cardinality(RowsOf(n)) <= 1

\* C19 witness: of two callbacks for one nonce, one fell through to the catch
\* branch and stored the failed row, the other found the nonce taken in both
\* of its creates and ended in an error; the nonce has one row.
C19_Witness ==
    \E k1, k2 \in Callbacks : \E n \in Nonces :
        /\ k1 # k2
        /\ callbacks[k1] = [pc |-> "done", nonce |-> n]
        /\ callbacks[k2] = [pc |-> "error", nonce |-> n]
        /\ Cardinality(RowsOf(n)) = 1
        /\ \A i \in RowsOf(n) : proofTable[i].status = "failed"

SameIdentity(a, b) == a.jwt.sub = b.jwt.sub /\ a.jwt.aud = b.jwt.aud /\ a.salt = b.salt

\* both calls have returned inputs and fields
BothReturned == \A c \in ZkCalls : seedOut[c].done /\ ~seedOut[c].threw

\* C21: two calls of generateZKInput that agree on the JWT's sub and aud and on
\* salt return the same fields.address_seed, whatever their randomness, epoch
\* and keyStr.
C21_AddressSeedOfIdentity ==
    (BothReturned /\ SameIdentity(seedArgs[1], seedArgs[2]))
        => seedOut[1].fields.address_seed = seedOut[2].fields.address_seed

\* C21 witness: two calls that agree on sub, aud and salt and differ in
\* randomness, epoch and keyStr have both returned, with one address_seed and
\* two different all_inputs_hash values.
C21_Witness ==
    /\ BothReturned
    /\ SameIdentity(seedArgs[1], seedArgs[2])
    /\ seedArgs[1].randomness # seedArgs[2].randomness
    /\ seedArgs[1].epoch # seedArgs[2].epoch
    /\ seedArgs[1].keyStr # seedArgs[2].keyStr
    /\ seedOut[1].fields.address_seed = seedOut[2].fields.address_seed
    /\ seedOut[1].inputs.all_inputs_hash # seedOut[2].inputs.all_inputs_hash

\* the positions of the entries of certs whose kid is the JWT header's
MatchingCerts(a) == {i \in DOMAIN a.certs : a.certs[i].kid = a.jwt.kid}

\* the least of a non-empty set of positions
First(positions) == CHOOSE i \in positions : \A k \in positions : i <= k

\* C30: generateZKInput throws and returns neither inputs nor fields when no
\* entry of certs has the JWT header's kid; when some entry has it, the call
\* returns and inputs.modulus is the limbs of the first such entry's modulus.
C30_UnknownKidFails ==
    \A c \in ZkCalls :
        zkOut[c].done =>
            IF MatchingCerts(zkArgs) = {}
            THEN /\ zkOut[c].threw
                 /\ "inputs" \notin DOMAIN zkOut[c]
                 /\ "fields" \notin DOMAIN zkOut[c]
            ELSE /\ ~zkOut[c].threw
                 /\ zkOut[c].inputs.modulus
                        = GetLimbs(zkArgs.certs[First(MatchingCerts(zkArgs))].n)

\* C30 witness: a call has returned for certs in which two entries with
\* different moduli have the header's kid.
C30_Witness ==
    /\ zkOut[1].done /\ ~zkOut[1].threw
    /\ Cardinality(MatchingCerts(zkArgs)) = 2
    /\ zkArgs.certs[1].n # zkArgs.certs[2].n
    /\ zkOut[1].inputs.modulus = GetLimbs(zkArgs.certs[1].n)

\* the first and the second half of a list split at floor(N / 2)
FirstHalf(inputs) == SubSeq(inputs, 1, Len(inputs) \div 2)

SecondHalf(inputs) == SubSeq(inputs, Len(inputs) \div 2 + 1, Len(inputs))

\* C22: poseidonHash of 1..16 inputs is the arity-N function of the inputs; of
\* 17..32 inputs it is the arity-2 function of the direct hashes of the halves
\* split at floor(N / 2), each of 1..16 inputs, three hash functions in all;
\* of more than 32 inputs it is an error naming the length, with no hash
\* function applied.
C22_DispatchOnLength ==
    phOut.done =>
        LET inputs == phInputs.inputs
            N == Len(inputs)
        IN /\ (1 <= N /\ N <= 16) =>
                  /\ ~phOut.threw
                  /\ phOut.value = HashFunction(inputs)
                  /\ phOut.perms = 1
           /\ (16 < N /\ N <= 32) =>
                  /\ Len(FirstHalf(inputs)) \in 1..16
                  /\ Len(SecondHalf(inputs)) \in 1..16
                  /\ ~phOut.threw
                  /\ phOut.value = HashFunction(<<HashFunction(FirstHalf(inputs)),
                                                  HashFunction(SecondHalf(inputs))>>)
                  /\ phOut.perms = 3
           /\ N > 32 =>
                  /\ phOut.threw
                  /\ phOut.error[2] = N
                  /\ phOut.perms = 0
                  /\ "value" \notin DOMAIN phOut

\* C22 witness: a list of 17 different inputs has been hashed through halves
\* of 8 and 9 inputs.
C22_Witness ==
    /\ phOut.done /\ ~phOut.threw
    /\ Len(phInputs.inputs) = 17
    /\ phInputs.inputs[1] # phInputs.inputs[17]
    /\ Len(FirstHalf(phInputs.inputs)) = 8
    /\ phOut.value[3][2] = HashFunction(SecondHalf(phInputs.inputs))

\* C23: poseidonHash of an empty list ends, with an error and without a hash
\* value.
C23_EmptyInputFails ==
    (phOut.done /\ Len(phInputs.inputs) = 0) =>
        /\ phOut.threw
        /\ "value" \notin DOMAIN phOut

\* C23 witness: the call with the empty list has ended.
C23_Witness ==
    /\ phInputs.chosen
    /\ phInputs.inputs = <<>>
    /\ phOut.done /\ phOut.threw

\* the integer that a digit list denotes when index 0 is the least significant
\* digit and each digit has the given number of bits
RECURSIVE ValueLE(_, _)
ValueLE(digits, bits) ==
    IF digits = <<>> THEN 0 ELSE Head(digits) + Pow2(bits) * ValueLE(Tail(digits), bits)

\* every digit is below 2^bits
InRange(digits, bits) == \A i \in DOMAIN digits : digits[i] < Pow2(bits)

\* C24 as stated: the list that convertBase returns, read with index 0 least
\* significant, denotes the integer of the input.
C24_ValuePreservedLE ==
    (cvOut.done /\ InRange(cvArgs.inArrayLE, cvArgs.inBase)) =>
        ValueLE(cvOut.value, cvArgs.outBase) = ValueLE(cvArgs.inArrayLE, cvArgs.inBase)

\* C24: the list that convertBase returns for little-endian digits below
\* 2^inBase, read with index 0 MOST significant (big-endian), denotes the
\* integer of the input.
C24_ValuePreservedBE ==
    (cvOut.done /\ InRange(cvArgs.inArrayLE, cvArgs.inBase)) =>
        ValueLE(Reverse(cvOut.value), cvArgs.outBase)
            = ValueLE(cvArgs.inArrayLE, cvArgs.inBase)

\* C24 witness: a conversion to another base has returned several digits that
\* denote the input's integer from the most significant digit and another
\* integer from the least significant one.
C24_Witness ==
    /\ cvOut.done
    /\ InRange(cvArgs.inArrayLE, cvArgs.inBase)
    /\ cvArgs.inBase # cvArgs.outBase
    /\ Len(cvOut.value) > 1
    /\ ValueLE(Reverse(cvOut.value), cvArgs.outBase)
           = ValueLE(cvArgs.inArrayLE, cvArgs.inBase)
    /\ ValueLE(cvOut.value, cvArgs.outBase) # ValueLE(cvArgs.inArrayLE, cvArgs.inBase)

\* ceil(n * inBase / outBase)
OutLength(n, inBase, outBase) == (n * inBase + outBase - 1) \div outBase

\* C25: for n digits below 2^inBase convertBase returns ceil(n * inBase /
\* outBase) digits, each below 2^outBase, and the digit of the last chunk (the
\* most significant one, first in the list) has only the bits that the input
\* has left for it: what lies beyond the input's bits is zero.
C25_OutputLength ==
    (cvOut.done /\ InRange(cvArgs.inArrayLE, cvArgs.inBase)) =>
        LET n == Len(cvArgs.inArrayLE)
            m == OutLength(n, cvArgs.inBase, cvArgs.outBase)
        IN /\ Len(cvOut.value) = m
           /\ InRange(cvOut.value, cvArgs.outBase)
           /\ m > 0 => cvOut.value[1] < Pow2(n * cvArgs.inBase - (m - 1) * cvArgs.outBase)

\* C25 witness: a conversion whose bit count is no multiple of outBase has
\* returned, and its most significant digit is not zero.
C25_Witness ==
    /\ cvOut.done
    /\ InRange(cvArgs.inArrayLE, cvArgs.inBase)
    /\ (Len(cvArgs.inArrayLE) * cvArgs.inBase) % cvArgs.outBase # 0
    /\ Len(cvOut.value) = OutLength(Len(cvArgs.inArrayLE), cvArgs.inBase, cvArgs.outBase)
    /\ Len(cvOut.value) > 1
    /\ cvOut.value[1] # 0

\* the first n entries of a list
Truncate(q, n) == SubSeq(q, 1, IF n > Len(q) THEN Len(q) ELSE n)

\* C26 as stated: convertBase applied to its own result with the bases
\* exchanged, cut to the length of x, is x.
C26_RoundTripDirect ==
    (cvBack.done /\ InRange(cvArgs.inArrayLE, cvArgs.inBase)) =>
        Truncate(cvBack.direct, Len(cvArgs.inArrayLE)) = cvArgs.inArrayLE

\* C26: for digits below 2^a, convertBase(x, a, b) reversed to little-endian
\* order, converted back from b to a and reversed again, cut to the length of
\* x, is x.
C26_RoundTripReversed ==
    (cvBack.done /\ InRange(cvArgs.inArrayLE, cvArgs.inBase)) =>
        Truncate(cvBack.reversed, Len(cvArgs.inArrayLE)) = cvArgs.inArrayLE

\* C26 witness: a list has gone to another base and back; the way back has
\* more digits than the list, cutting the reversed way back gives the list
\* and cutting the direct way back does not.
C26_Witness ==
    /\ cvBack.done
    /\ InRange(cvArgs.inArrayLE, cvArgs.inBase)
    /\ cvArgs.inBase # cvArgs.outBase
    /\ Len(cvBack.reversed) > Len(cvArgs.inArrayLE)
    /\ Truncate(cvBack.reversed, Len(cvArgs.inArrayLE)) = cvArgs.inArrayLE
    /\ Truncate(cvBack.direct, Len(cvArgs.inArrayLE)) # cvArgs.inArrayLE

\* the byte length of the unsigned JWT header.payload
UnsignedLen(jwt) == Len(jwt.header) + 1 + Len(jwt.payload)

\* the smallest multiple of 512 that is at least 8n + 65
PaddedBits(n) == ((8 * n + 65 + 511) \div 512) * 512

\* C27: for every unsigned JWT of n bytes whose padding fits the buffer,
\* getUnsignedPaddedJWT returns; num_sha2_blocks * 512 is the smallest
\* multiple of 512 that is at least 8n + 65, the last 8 bytes of these blocks
\* are 8n as a big-endian number, and the bytes after the blocks are zero.
C27_PaddingSucceeds ==
    pdOut.done =>
        LET n == UnsignedLen(pdArgs)
            blocks == PaddedBits(n) \div 512
        IN blocks * 64 <= PADDED_UNSIGNED_JWT_LENGTH =>
           /\ ~pdOut.threw
           /\ pdOut.numSha2Blocks = blocks
           /\ Len(pdOut.paddedUnsignedJwt) = PADDED_UNSIGNED_JWT_LENGTH
           /\ BitsValue(Join([k \in 1..8 |->
                  PadStart(ToString2(pdOut.paddedUnsignedJwt[blocks * 64 - 8 + k]), 8)]))
                  = 8 * n
           /\ \A k \in (blocks * 64 + 1)..PADDED_UNSIGNED_JWT_LENGTH :
                  pdOut.paddedUnsignedJwt[k] = 0

\* C27 for the lengths whose 1 bit and length field fit the last block
C27_PaddingWhenItFits ==
    (pdOut.done /\ UnsignedLen(pdArgs) % 64 <= 55) => C27_PaddingSucceeds

\* the call throws for exactly the lengths whose remainder by 64 is 56..63
C27_ThrowsInLastEightBytes ==
    pdOut.done => (pdOut.threw <=> UnsignedLen(pdArgs) % 64 >= 56)

\* the four extractions whose text generateZKInput emits: the claim each one
\* looks for and the length each one pads to
ExtClaim == [kc |-> "sub", nonce |-> "nonce", ev |-> "nonce", aud |-> "aud"]

ExtPad == [kc |-> 126, nonce |-> 44, ev |-> 53, aud |-> 160]

\* the payload holds the claim and another claim after it
FollowedByClaim(jwt, name) ==
    \E i \in DOMAIN jwt.claims : jwt.claims[i] = name /\ i < Len(jwt.claims)

\* C28: in a returned result, each of ext_kc (pad 126), ext_nonce (44), ext_ev
\* (53) and ext_aud (160) has exactly its pad length, its ext_*_length is the
\* length of the extracted text, its first ext_*_length entries are that text
\* and all later entries are zero; for a claim that the payload holds before
\* another claim, the extracted text is "name":"value", with the comma.
C28_ExtPadding ==
    (kcOut.done /\ ~kcOut.threw) =>
        \A x \in DOMAIN ExtClaim :
            LET e == kcOut[x]
            IN /\ Len(e.asciiVal) = ExtPad[x]
               /\ e.asciiArrayLength = Len(e.value)
               /\ e.asciiArrayLength <= ExtPad[x]
               /\ SubSeq(e.asciiVal, 1, e.asciiArrayLength) = e.value
               /\ \A i \in (e.asciiArrayLength + 1)..ExtPad[x] : e.asciiVal[i] = 0
               /\ FollowedByClaim(kcArgs, ExtClaim[x]) =>
                      e.value = ClaimText(kcArgs, ExtClaim[x]) \o <<44>>

\* C28 witness: a payload that holds sub, with a long value, nonce and aud,
\* each before another claim, has been extracted: ext_kc_length is the length
\* of "sub":"value", and the last entry of ext_kc is zero.
C28_Witness ==
    /\ kcOut.done /\ ~kcOut.threw
    /\ \A x \in DOMAIN ExtClaim : FollowedByClaim(kcArgs, ExtClaim[x])
    /\ kcArgs.long = "sub"
    /\ kcOut.kc.asciiArrayLength = Len(ClaimText(kcArgs, "sub")) + 1
    /\ kcOut.kc.asciiArrayLength > 44
    /\ kcOut.kc.asciiVal[126] = 0
    /\ kcOut.nonce.asciiArrayLength = Len(ClaimText(kcArgs, "nonce")) + 1

\* the claims that generateZKInput needs
RequiredClaims == {"sub", "aud", "iss", "nonce"}

\* C29: generateZKInput fails, returning nothing, whenever one of sub, aud, iss
\* and nonce is absent from the payload.
C29_MissingClaimFails ==
    (kcOut.done /\ \E name \in RequiredClaims : ~HasClaim(kcArgs, name)) => kcOut.threw

\* the part of C29 that holds: the call fails whenever sub or aud is absent
C29_MissingSubOrAudFails ==
    (kcOut.done /\ (~HasClaim(kcArgs, "sub") \/ ~HasClaim(kcArgs, "aud"))) => kcOut.threw

\* the position of w in the connected map (0 when it is not there)
GwPosition(w) ==
    IF w \in Range(gwWorkers) THEN CHOOSE i \in DOMAIN gwWorkers : gwWorkers[i] = w ELSE 0

GwUsable(w) == w \in Range(gwWorkers) /\ gwAlive[w] /\ gwState[w] = "OPEN"

\* C31: a call of getAvailableWorker returns the worker that comes first in
\* connection order among those whose liveness flag is true and whose channel
\* is open, returns null exactly when there is none, and changes neither the
\* connected map nor any worker's flag or channel state.
C31_FirstAvailableWorker ==
    [][gwPick' # gwPick =>
          /\ UNCHANGED <<gwWorkers, gwState, gwAlive>>
          /\ (gwPick'.worker = NoWorker) <=> (\A w \in GwSockets : ~GwUsable(w))
          /\ gwPick'.worker # NoWorker =>
                 /\ GwUsable(gwPick'.worker)
                 /\ \A w \in GwSockets :
                        GwUsable(w) => GwPosition(gwPick'.worker) <= GwPosition(w)]_vars

\* a call has skipped a closed connection that is still in the map and
\* returned a later one, out of the order of the socket numbers
C31_Witness ==
    /\ gwPick.done
    /\ Len(gwWorkers) = 3
    /\ gwState[gwWorkers[1]] = "CLOSED"
    /\ gwPick.worker = gwWorkers[2]
    /\ gwWorkers[2] > gwWorkers[3]
    /\ gwState[gwWorkers[3]] = "OPEN"

\* slot t's timeout closure takes a step
TimerStep(t) == timers[t].pc # "none" /\ timers'[t] # timers[t]

\* slot t's timeout closure finishes in this step
TimerEnds(t) == timers[t].pc # "none" /\ timers'[t].pc = "none"

\* slot t's timeout closure has fired and not finished, and its next step waits
\* for nothing but the store
TimerRunning(t) == timers[t].pc \in {"read", "finally"}

\* C32: once a job's timeout timer has fired, the closure always has a next
\* step, whatever the store did (the read or the update threw, the job was
\* generating, generated or failed); it ends only with the job's id removed
\* from the processing set; and it changes no job's row except that it sets
\* its own job to failed when the re-read found it generating.
C32_TimerAlwaysReleases ==
    /\ [](\A t \in Ticks :
            TimerRunning(t) =>
                ENABLED (TimerUpdate(t) \/ TimerUpdateFail(t) \/ TimerFinally(t)))
    /\ [][\A t \in Ticks :
             /\ TimerEnds(t) => ticks[t].proof.id \notin processingProofs'
             /\ TimerStep(t) =>
                    /\ \A j \in Jobs : j # ticks[t].proof.id => store'[j] = store[j]
                    /\ store' # store =>
                           /\ timers[t].pc = "read" /\ timers[t].cur = "generating"
                           /\ store' = [store EXCEPT ![ticks[t].proof.id].status = "failed"]
                    /\ (timers[t].pc = "read" /\ timers[t].cur # "generating") =>
                           store' = store]_vars

\* the closure of a job whose re-read found it generated has finished: the
\* job is still generated and its id has left the processing set
C32_Witness ==
    \E j \in Jobs :
        /\ Status(j) = "generated"
        /\ sentCount[j] > 0
        /\ ~timedOut[j]
        /\ j \notin processingProofs
        /\ \A t \in Ticks : ticks[t].proof.id # j

\* an invocation of handleProofResult for job j runs its catch branch's
\* update (or that update's failure) in this step
FallbackStep(j) == fallbacks'[j] = fallbacks[j] - 1

\* no row other than job j's changes in this step
OnlyRow(j) == \A k \in Jobs : k # j => store'[k] = store[k]

\* C33: handling a worker's reply for job j either writes the result into
\* j's row, or (the update threw) leaves the store alone and owes exactly one
\* update of j to failed; that second update always has an outcome, writes
\* nothing but status failed into j's row or (it threw too) nothing at all,
\* and ends the invocation; no step of the handler touches another job's row.
C33_ResultHandlerContained ==
    /\ [](\A j \in Jobs :
            fallbacks[j] > 0 => ENABLED (HandleFallback(j) \/ HandleFallbackFail(j)))
    /\ [][\A j \in Jobs :
             /\ ReplyStep(j) =>
                    /\ OnlyRow(j)
                    /\ \/ /\ store'[j] = GeneratedRow(store[j], j)
                          /\ fallbacks' = fallbacks
                       \/ /\ store' = store
                          /\ fallbacks' = [fallbacks EXCEPT ![j] = @ + 1]
                       \/ \* the worker sent no reply for the task
                          /\ store' = store
                          /\ fallbacks' = fallbacks
             /\ FallbackStep(j) =>
                    /\ OnlyRow(j)
                    /\ \/ store'[j] = [store[j] EXCEPT !.status = "failed"]
                       \/ store' = store
                    /\ fallbacks'[j] >= 0]_vars

\* a reply's first update has failed and the second one has set the job to
\* failed: the job was sent, no timeout closure failed it, nothing is owed
C33_Witness ==
    \E j \in Jobs :
        /\ Status(j) = "failed"
        /\ sentCount[j] > 0
        /\ ~timedOut[j]
        /\ fallbacks[j] = 0

\* Base64 writes the bytes as one bit string and cuts it into characters of
\* six bits: character c carries bits 6c..6c+5, byte b is bits 8b..8b+7.
CharCoversByte(c, b) == 6 * c < 8 * b + 8 /\ 8 * b < 6 * c + 6

\* the base64 characters of a payload that encode at least one of the bytes
\* o .. o+l-1
CoveringChars(o, l) ==
    {c \in 0..(((o + l) \div 3) * 4 + 3) : \E b \in o..(o + l - 1) : CharCoversByte(c, b)}

\* the extractions that report a base64 span
SpanOf ==
    [kc |-> [index |-> kcOut.kc.b64Index, size |-> kcOut.kc.b64Size, text |-> kcOut.kc.value],
     nonce |-> [index |-> kcOut.nonce.b64Index, size |-> kcOut.nonce.b64Size,
                text |-> kcOut.nonce.value],
     aud |-> [index |-> kcOut.aud.b64Index, size |-> kcOut.aud.b64Size,
              text |-> kcOut.aud.value]]

\* the byte offset of an extracted text in the decoded payload
OffsetOf(x) == IndexOf(PayloadStr(kcArgs), SpanOf[x].text)

\* C34: for an extracted text at byte offset o >= 0 with length l >= 1, the
\* reported index is floor(o/3)*4 + (o mod 3) + |header| + 1, the reported size
\* reaches to floor((o+l)/3)*4 + (0 if (o+l) mod 3 = 0, else 1 + (o+l) mod 3),
\* and the characters from that start to before that end are exactly the
\* payload's base64 characters that encode at least one of the bytes o..o+l-1.
C34_Base64Span ==
    (kcOut.done /\ ~kcOut.threw) =>
        \A x \in DOMAIN SpanOf :
            LET o == OffsetOf(x)
                l == Len(SpanOf[x].text)
                start == (o \div 3) * 4 + (o % 3)
                end == ((o + l) \div 3) * 4
                           + (IF (o + l) % 3 = 0 THEN 0 ELSE 1 + ((o + l) % 3))
            IN (o >= 0 /\ l >= 1) =>
                   /\ SpanOf[x].index = start + Len(kcArgs.header) + 1
                   /\ SpanOf[x].size = end - start
                   /\ start..(end - 1) = CoveringChars(o, l)

\* extractions have run whose texts start and end at every position within a
\* group of three bytes
C34_Witness ==
    /\ kcOut.done /\ ~kcOut.threw
    /\ \A x \in DOMAIN SpanOf : OffsetOf(x) >= 1 /\ Len(SpanOf[x].text) >= 10
    /\ {OffsetOf(x) % 3 : x \in DOMAIN SpanOf} = {0, 1, 2}
    /\ \E x \in DOMAIN SpanOf : (OffsetOf(x) + Len(SpanOf[x].text)) % 3 = 1
    /\ \E x \in DOMAIN SpanOf : (OffsetOf(x) + Len(SpanOf[x].text)) % 3 = 2

\* task t's generateProof is between its first and its last file access
InProgress(t) == wTasks[t].pc \in {"write", "witness", "prove", "read"}

\* the files task t's generateProof reads and writes: the four files of its
\* cache directory
WorkingFiles(t) ==
    {<<CacheDir(wTasks[t]), f>> : f \in {"input", "witness", "proof", "public"}}

\* C35: two tasks whose generateProof calls are in progress at the same time
\* have no working file in common.
C35_DisjointWorkingFiles ==
    \A t, u \in Tasks :
        (t # u /\ InProgress(t) /\ InProgress(u)) => WorkingFiles(t) \cap WorkingFiles(u) = {}

\* two tasks with different address seeds, in progress together, do have
\* disjoint working files
C35_DisjointWhenSeedsDiffer ==
    \A t, u \in Tasks :
        (t # u /\ InProgress(t) /\ InProgress(u) /\ wTasks[t].seed # wTasks[u].seed)
            => WorkingFiles(t) \cap WorkingFiles(u) = {}

\* the number that a list of limbs denotes when its first limb is the least
\* significant one: the sum of limbs[i] * 2^(LimbBits * (i - 1))
RECURSIVE ValueOfLimbsLE(_)
ValueOfLimbsLE(limbs) ==
    IF limbs = <<>> THEN 0
    ELSE Head(limbs) + Pow2(LimbBits) * ValueOfLimbsLE(Tail(limbs))

\* C36: inputs.modulus is the little-endian limb decomposition of the modulus
\* N (the limbs are below 2^LimbBits and sum, weighted by 2^(LimbBits * i), to
\* N), inputs.signature is decomposed in the same order, and modulus_F is the
\* Poseidon hash of the conversion of that same limb sequence, taken as
\* little-endian, to field elements.
C36_ModulusLimbsLE ==
    lbOut.done =>
        /\ \A i \in DOMAIN lbOut.inputs.modulus :
               lbOut.inputs.modulus[i] \in 0..(Pow2(LimbBits) - 1)
        /\ ValueOfLimbsLE(lbOut.inputs.modulus) = lbArgs.modulusBN
        /\ \A i \in DOMAIN lbOut.inputs.signature :
               lbOut.inputs.signature[i] \in 0..(Pow2(LimbBits) - 1)
        /\ ValueOfLimbsLE(lbOut.inputs.signature) = lbArgs.signatureBN
        /\ lbOut.modulus_F
               = PoseidonOf(ConvertBase(lbOut.inputs.modulus, LimbBits, FieldBits))

\* the signals of a modulus of three limbs that is not a palindrome, and of a
\* signature of as many limbs, have been computed
C36_Witness ==
    /\ lbOut.done
    /\ Len(lbOut.inputs.modulus) = 3
    /\ lbOut.inputs.modulus # Reverse(lbOut.inputs.modulus)
    /\ Len(lbOut.inputs.signature) = 3
    /\ lbOut.inputs.signature # Reverse(lbOut.inputs.signature)

\* C37: whenever a tick sends its task, the worker it sends to is in the
\* connected map and its channel is open.
C37_SendTargetConnected ==
    [][\A t \in Ticks :
          SendStep(t) =>
              /\ ticks[t].worker \in Range(connectedWorkers)
              /\ readyState[ticks[t].worker] = "OPEN"]_vars

\* the worker a tick is about to send to was in the connected map, alive and
\* open, when the tick picked it
C37_TargetAvailableAtPick ==
    [][\A t \in Ticks :
          (CheckStep(t) /\ ticks'[t].pc = "update") =>
              /\ ticks'[t].worker \in Range(connectedWorkers)
              /\ Available(ticks'[t].worker)]_vars

\* slot t's update to generating throws in this step and the tick ends
UpdateFailStep(t) == ticks[t].pc = "update" /\ ticks'[t].pc = "idle"

\* C38: a tick whose update to generating throws ends with its job's id out
\* of the processing set.
C38_FailedUpdateReleases ==
    [][\A t \in Ticks :
          UpdateFailStep(t) => ticks[t].proof.id \notin processingProofs']_vars

\* a tick whose update throws leaves the store as it was
C38_FailedUpdateKeepsStore ==
    [][\A t \in Ticks : UpdateFailStep(t) => store' = store]_vars

\* job j's row changes in this step and is generated after it
BecomesGenerated(j) == store'[j] # store[j] /\ Status(j)' = "generated"

\* C39: a job's row is written as generated only in a step that consumes a task
\* message for that job outstanding at a worker whose channel is open, i.e. on
\* a reply from the worker the job was dispatched to; a result from a worker
\* that holds no task for the job changes no row.
C39_ResultOnlyFromDispatchedWorker ==
    [][\A j \in Jobs : BecomesGenerated(j) => ReplyStep(j)]_vars

\* when workers send nothing but replies to their tasks, every row written as
\* generated is written on such a reply
C39_RepliesAreToTasks ==
    [][\A j \in Jobs : BecomesGenerated(j) => ReplyStep(j)]_vars
        /\ [](\A i \in DOMAIN outbox : sentCount[outbox[i].proofId] > 0)

\* no timer of client c is armed
NoTimerArmed(c) == ~pingTimer[c] /\ pongTimer[c] = "none" /\ ~reconnectTimer[c].armed

\* C40: once close() has been called on a client, none of its ping, pong and
\* reconnect timers is armed.
C40_NoTimerAfterClose == \A c \in Clients : closeCalled[c] => NoTimerArmed(c)

\* when close() returns, none of the client's timers is armed
C40_NoTimerWhenCloseReturns ==
    [][\A c \in Clients : (closeCalled'[c] /\ ~closeCalled[c]) => NoTimerArmed(c)']_vars

\* after close() neither the ping interval nor a pong timeout is armed
C40_NoHeartbeatAfterClose ==
    \A c \in Clients : closeCalled[c] => (~pingTimer[c] /\ pongTimer[c] = "none")

====
